---- MODULE Spec2Model ----
(***************************************************************************)
(* A model of reflex's configuration resolution (reflex/config.py), of the *)
(* export pipeline (reflex/utils/build.py) and of the run functions        *)
(* (reflex/utils/exec.py).                                                 *)
(*                                                                         *)
(* ConfigSpec : get_config() -> Config.__init__ -> check_deprecated_values *)
(*              -> update_from_env, one step per iteration of the loop.    *)
(* ExportSpec : export(), one step per statement with an outside effect.   *)
(* JsonSpec   : update_json_file and its two callers, one step per call.   *)
(* RunSpec    : run_frontend, run_frontend_prod, run_backend and           *)
(*              run_backend_prod, one step per statement, with get_config  *)
(*              stepping as in ConfigSpec.                                 *)
(* AccSpec    : DBConfig.get_url and Config.get_event_namespace.           *)
(* ZipSpec    : the zip steps of export, _zip one step per file.           *)
(* SetupSpec  : setup_frontend_prod, one step per call, then get_config    *)
(*              and export stepping as in ConfigSpec and ExportSpec.       *)
(***************************************************************************)
EXTENDS Naturals, Integers, Sequences, FiniteSets, TLC

VARIABLES
    \* ---- reflex/config.py ----
    kwargs,       \* the keyword arguments rxconfig.py passes to Config(...)
    environ,      \* os.environ: a function from variable names to strings
    importable,   \* whether __import__(constants.CONFIG_MODULE) finds rxconfig
    reload,       \* get_config's argument
    cpc,          \* position inside get_config / Config.__init__
    args,         \* **kwargs of the Config(...) call in progress
    self,         \* the Config object under construction (fields -> values)
    idx,          \* position of update_from_env's loop in __fields__
    console,      \* what console.info / console.error have printed, in order
    mark,         \* Len(console) when the Config(...) call in progress began
    overridden,   \* fields set by update_from_env in the call in progress
    error,        \* the exception that left get_config, "none" if none
    pass,         \* how many times the rxconfig module body has been run
    \* ---- reflex/utils/build.py: export ----
    backend,      \* export's argument backend
    frontend,     \* export's argument frontend
    zip,          \* export's argument zip
    deploy_url,   \* export's argument deploy_url (None or a string)
    pc,           \* position inside export
    command,      \* export's local variable command
    files,        \* the files on disk, as paths below the working directory
    files0,       \* the files on disk when export was called
    zipContent,   \* the entries of each archive file on disk
    zipWrites,    \* how many times each archive was opened for writing
    manifests,    \* files_to_zip of each _zip call made, by component
    sitemap,      \* the contents written to the sitemap config file, in order
    spawned,      \* the commands handed to processes.new_process, in order
    exitCode,     \* the exit status of the build subprocess, None before
    trace,        \* the steps export has taken, in order
    raised,       \* the exception that left export, "none" if none
    \* ---- reflex/utils/build.py: update_json_file ----
    jsonExists,   \* which of the JSON files exist on disk
    jsonText,     \* the text of each JSON file, as tokens; <<>> is zero bytes
    json0,        \* what each JSON file was before the first call
    jsonCalls,    \* the update_json_file calls made, in order
    \* ---- reflex/utils/exec.py ----
    run_fn,       \* which of run_frontend, run_frontend_prod, run_backend,
                  \* run_backend_prod was called
    run_port,     \* its argument port (None or a string)
    depsOk,       \* whether the frontend dependencies are valid
    is_windows,   \* constants.IS_WINDOWS
    rpc,          \* position inside the function
    environ0,     \* os.environ when the function was called
    watches,      \* how many asset watches have been started
    procs,        \* the processes started, in order, each with the environment
                  \* it was given
    outLines,     \* the lines the frontend process has written, in order
    reports,      \* the URLs printed as "App running at", in order
    rtrace,       \* the steps the function has taken, in order
    rraised,      \* the exception that left the function, "none" if none
    app_module,   \* the local variable app_module, <<>> before it is built
    \* ---- reflex/config.py: DBConfig.get_url, Config.get_event_namespace ----
    accessor,     \* which of the two is called
    accSelf,      \* the fields of the object it is called on
    accResult,    \* the string it returned, as a sequence of characters
    accDone,      \* whether it has returned
    \* ---- reflex/utils/build.py: _zip, one step per file ----
    zpc,          \* position inside the zip steps of export
    zmanifest,    \* files_to_zip of the _zip call in progress
    zqueue,       \* the files of the manifest not yet written
    unreadable,   \* the files and directories that cannot be read
    created,      \* the files created while export was running
    \* ---- reflex/utils/build.py: setup_frontend_prod ----
    spc,          \* position inside setup_frontend_prod
    disable_telemetry,  \* its argument disable_telemetry
    strace        \* the calls it has made, in order, each with its outcome

cfgVars == <<kwargs, environ, importable, reload, cpc, args, self, idx,
             console, mark, overridden, error, pass>>

expVars == <<backend, frontend, zip, deploy_url, pc, command, files, files0,
             zipContent, zipWrites, manifests, sitemap, spawned, exitCode, trace,
             raised>>

jsonVars == <<jsonExists, jsonText, json0, jsonCalls>>

runVars == <<run_fn, run_port, depsOk, is_windows, rpc, environ0, watches, procs,
             outLines, reports, rtrace, rraised, app_module>>

accVars == <<accessor, accSelf, accResult, accDone>>

zipVars == <<zpc, zmanifest, zqueue, unreadable, created>>

setupVars == <<spc, disable_telemetry, strace>>

auxVars == <<jsonVars, runVars, accVars, zipVars, setupVars>>

vars == <<cfgVars, expVars, auxVars>>

----------------------------------------------------------------------------
(* Bounds of the model.                                                    *)

\* At most this many keyword arguments are passed to Config(...).
MaxOverrides == 3

\* At most this many of the configuration's variables are set in os.environ.
MaxEnvVars == 2

----------------------------------------------------------------------------
(* Config: the declared fields (a representative of each declared scalar   *)
(* type: str, enum, int, bool, and the secret-carrying db_url).            *)

\* self.__fields__, in declaration order.
FieldOrder == <<"app_name", "loglevel", "frontend_port", "telemetry_enabled", "db_url">>

Fields == {FieldOrder[i] : i \in 1..Len(FieldOrder)}

\* field.type_ of each field.
FieldType == [app_name |-> "str", loglevel |-> "LogLevel", frontend_port |-> "int",
              telemetry_enabled |-> "bool", db_url |-> "str"]

\* The declared defaults; app_name declares none, so it is required.
Defaults == [loglevel |-> "info", frontend_port |-> 3000,
             telemetry_enabled |-> TRUE, db_url |-> "sqlite:///reflex.db"]

\* The values of the members of constants.LogLevel that the sources name
\* (LogLevel.INFO, LogLevel.ERROR, LogLevel.DEBUG).
LogLevel == {"debug", "info", "error"}

\* The keys check_deprecated_values rejects, in the order it tests them.
DeprecatedOrder == <<"db_config", "admin_dash", "env_path">>

DeprecatedKeys == {DeprecatedOrder[i] : i \in 1..Len(DeprecatedOrder)}

\* key.upper()
Upper(key) ==
    CASE key = "app_name" -> "APP_NAME"
      [] key = "loglevel" -> "LOGLEVEL"
      [] key = "frontend_port" -> "FRONTEND_PORT"
      [] key = "telemetry_enabled" -> "TELEMETRY_ENABLED"
      [] key = "db_url" -> "DB_URL"

----------------------------------------------------------------------------
(* The inputs.                                                             *)

\* The strings an environment variable may hold.
EnvStrings == {"", "7", "debug"}

EnvNames == {Upper(f) : f \in Fields}

\* The value rxconfig.py passes for a key, when it passes that key.
OverrideVal == [app_name |-> "app", loglevel |-> "error", frontend_port |-> 8080,
                telemetry_enabled |-> FALSE, db_url |-> "postgresql://u@h/d",
                db_config |-> "DBConfig", admin_dash |-> "AdminDash",
                env_path |-> ".env"]

KwargsOver(S) == [k \in S |-> OverrideVal[k]]

AllKwargs == {KwargsOver(S) : S \in {T \in SUBSET (Fields \cup DeprecatedKeys) :
                                         Cardinality(T) <= MaxOverrides}}

AllEnvirons == UNION {[S -> EnvStrings] : S \in {T \in SUBSET EnvNames :
                                                     Cardinality(T) <= MaxEnvVars}}

NoKwargs == KwargsOver({})

----------------------------------------------------------------------------
(* field.type_(env_var): the conversions of update_from_env.               *)

\* int(s) on the strings of EnvStrings: the decimal literals and their value.
IntLiteral == [s \in {"7"} |-> 7]

\* A variant that checks only int: an enum converted as if it were a str.
CoercibleLax(type, s) == type = "int" => s \in DOMAIN IntLiteral

\* Whether field.type_(s) returns (TRUE) or raises ValueError (FALSE).
Coercible(type, s) ==
    CASE type = "int" -> s \in DOMAIN IntLiteral
      [] type = "bool" -> TRUE
      [] type = "str" -> TRUE
      [] type = "LogLevel" -> s \in LogLevel

\* The value field.type_(s) returns.
Coerce(type, s) ==
    CASE type = "int" -> IntLiteral[s]
      [] type = "bool" -> s # ""
      [] type = "str" -> s
      [] type = "LogLevel" -> s

----------------------------------------------------------------------------
(* Console output.                                                         *)

Info(key, raw) == [level |-> "info", key |-> key, name |-> Upper(key), raw |-> raw]

Err(key, raw) == [level |-> "error", key |-> key, name |-> Upper(key), raw |-> raw]

\* A variant without the DB_URL exception.
InfoAlways(log, key, raw) == Append(log, Info(key, raw))

\* Lines 241-244: the notice, printed before the conversion is tried.
InfoUnlessDbUrl(log, key, raw) ==
    IF Upper(key) # "DB_URL" THEN Append(log, Info(key, raw)) ELSE log

----------------------------------------------------------------------------
(* get_config                                                              *)

\* A variant whose fallback names the application.
FallbackKwargsNamed == [k \in {"app_name"} |-> "app"]

\* Line 290: the arguments of the fallback Config(app_name="").
FallbackKwargs == [k \in {"app_name"} |-> ""]

\* Lines 282-290: the import either runs rxconfig.py, whose body calls
\* Config(**kwargs), or raises ImportError, and the handler calls
\* Config(app_name="").
GetConfig ==
    /\ UNCHANGED <<expVars, auxVars>>
    /\ cpc = "get_config"
    /\ args' = IF importable THEN kwargs ELSE FallbackKwargs
    /\ cpc' = "init"
    /\ pass' = 1
    /\ UNCHANGED <<kwargs, environ, importable, reload, self, idx, console, mark,
                   overridden, error>>

\* pydantic's validation of the keyword arguments in super().__init__: a
\* field that declares no default must be passed.
BaseValidationError(a) ==
    IF "app_name" \notin DOMAIN a THEN "field_required:app_name" ELSE "none"

\* Line 198: super().__init__(*args, **kwargs).
BaseInit ==
    /\ UNCHANGED <<expVars, auxVars>>
    /\ cpc = "init"
    /\ mark' = Len(console)
    /\ overridden' = {}
    /\ IF BaseValidationError(args) # "none"
       THEN /\ cpc' = "raised"
            /\ error' = BaseValidationError(args)
            /\ UNCHANGED self
       ELSE /\ self' = [f \in Fields |-> IF f \in DOMAIN args THEN args[f] ELSE Defaults[f]]
            /\ cpc' = "check_deprecated"
            /\ UNCHANGED error
    /\ UNCHANGED <<kwargs, environ, importable, reload, args, idx, console, pass>>

\* A variant that lacks the env_path test.
DeprecatedErrorNoEnvPath(a) ==
    IF "db_config" \in DOMAIN a THEN "deprecated:db_config"
    ELSE IF "admin_dash" \in DOMAIN a THEN "deprecated:admin_dash"
    ELSE "none"

\* Lines 216-225: the first deprecated key found, in the order of the tests.
DeprecatedError(a) ==
    IF "db_config" \in DOMAIN a THEN "deprecated:db_config"
    ELSE IF "admin_dash" \in DOMAIN a THEN "deprecated:admin_dash"
    ELSE IF "env_path" \in DOMAIN a THEN "deprecated:env_path"
    ELSE "none"

\* Line 201: self.check_deprecated_values(**kwargs).
CheckDeprecatedValues ==
    /\ UNCHANGED <<expVars, auxVars>>
    /\ cpc = "check_deprecated"
    /\ IF DeprecatedError(args) # "none"
       THEN /\ cpc' = "raised"
            /\ error' = DeprecatedError(args)
            /\ UNCHANGED idx
       ELSE /\ cpc' = "update_from_env"
            /\ idx' = 1
            /\ UNCHANGED error
    /\ UNCHANGED <<kwargs, environ, importable, reload, args, self, console, mark,
                   overridden, pass>>

\* A variant that reads the variable named like the field, not upper-cased.
EnvVarNameNotUpper(key) == key

\* Line 237: the variable update_from_env reads for a field.
EnvVarName(key) == Upper(key)

\* Lines 235-256: one iteration of update_from_env's loop.
UpdateFromEnvStep ==
    /\ UNCHANGED <<expVars, auxVars>>
    /\ cpc = "update_from_env"
    /\ idx <= Len(FieldOrder)
    /\ LET key == FieldOrder[idx]
           name == EnvVarName(key)
       IN IF name \notin DOMAIN environ
          THEN /\ idx' = idx + 1
               /\ UNCHANGED <<self, console, overridden, cpc, error>>
          ELSE LET raw == environ[name]
                   noticed == InfoUnlessDbUrl(console, key, raw)
               IN IF Coercible(FieldType[key], raw)
                  THEN /\ self' = [self EXCEPT ![key] = Coerce(FieldType[key], raw)]
                       /\ console' = noticed
                       /\ overridden' = overridden \cup {key}
                       /\ idx' = idx + 1
                       /\ UNCHANGED <<cpc, error>>
                  ELSE /\ console' = Append(noticed, Err(key, raw))
                       /\ cpc' = "raised"
                       /\ error' = "coercion"
                       /\ UNCHANGED <<self, overridden, idx>>
    /\ UNCHANGED <<kwargs, environ, importable, reload, args, mark, pass>>

\* Lines 285-287: Config(...) has returned inside rxconfig.py; with reload
\* the module body is run once more, and then rxconfig.config is returned.
\* Line 290: the fallback Config is returned.
ConfigReturns ==
    /\ UNCHANGED <<expVars, auxVars>>
    /\ cpc = "update_from_env"
    /\ idx > Len(FieldOrder)
    /\ IF importable /\ reload /\ pass = 1
       THEN cpc' = "init" /\ pass' = 2
       ELSE cpc' = "returned" /\ UNCHANGED pass
    /\ UNCHANGED <<kwargs, environ, importable, reload, args, self, idx, console,
                   mark, overridden, error>>

----------------------------------------------------------------------------
(* File names and paths.  A name is the sequence of its pieces, the dot a   *)
(* piece of its own ("a.txt" is <<"a", ".", "txt">>); a path is the         *)
(* sequence of its names below the working directory.                      *)

\* name.startswith(".")
StartsWithDot(name) == Len(name) > 0 /\ name[1] = "."

Basename(path) == path[Len(path)]

\* Whether path lies below directory dir.
Under(dir, path) ==
    /\ Len(path) > Len(dir)
    /\ \A i \in 1..Len(dir) : path[i] = dir[i]

\* os.path.relpath(file, root_dir)
RelPath(path, root) == SubSeq(path, Len(root) + 1, Len(path))

\* constants.FRONTEND_ZIP and constants.BACKEND_ZIP, files of the working
\* directory.
FRONTEND_ZIP == <<"frontend", ".", "zip">>

BACKEND_ZIP == <<"backend", ".", "zip">>

\* constants.WEB_STATIC_DIR, and root_dir of the frontend archive.
WEB_STATIC_DIR == << <<".", "web">>, <<"_static">> >>

\* root_dir="." of the backend archive: the working directory.
BACKEND_ROOT == <<>>

\* Line 198: files_to_exclude of both _zip calls.
FilesToExclude == {FRONTEND_ZIP, BACKEND_ZIP}

\* Line 211: dirs_to_exclude of the backend _zip call.
BackendDirsToExclude == {<<"assets">>, <<"__pycache__">>}

\* Lines 114-115: the frontend _zip call passes no dirs_to_exclude.
FrontendDirsToExclude == {}

\* deploy_url=None
None == "None"

----------------------------------------------------------------------------
(* The inputs of export.                                                   *)

\* At most this many files are on disk when export is called.
MaxFiles == 4

\* The files that may be on disk when export is called.
FileUniverse ==
    { << <<"a", ".", "txt">> >>,
      << <<".", "secret">> >>,
      << <<".", "hidden">>, <<"x", ".", "txt">> >>,
      << <<"node_modules">>, <<"pkg", ".", "js">> >>,
      << <<"assets">>, <<"logo", ".", "png">> >>,
      << <<"app">>, <<"app", ".", "py">> >>,
      << <<"app">>, <<"__pycache__">>, <<"app", ".", "pyc">> >>,
      << <<"app">>, BACKEND_ZIP >>,
      << <<"docs">>, <<"assets">> >>,
      << FRONTEND_ZIP >>,
      << <<".", "web">>, <<"_static">>, <<"old", ".", "html">> >> }

\* The files the build subprocess may leave in the static-output directory.
BuildOutputs ==
    { WEB_STATIC_DIR \o << <<"index", ".", "html">> >>,
      WEB_STATIC_DIR \o << <<".", "nojekyll">> >>,
      WEB_STATIC_DIR \o << <<"_next">>, <<"app", ".", "js">> >> }

DeployUrls == {None, "", "https://example.com"}

\* The exit statuses of the build subprocess.
ExitCodes == {0, 1}

\* The entries of an archive left by an earlier run.
StaleEntries == { << <<"stale">> >> }

Targets == {FRONTEND_ZIP, BACKEND_ZIP}

----------------------------------------------------------------------------
(* _zip                                                                    *)

\* A variant that descends into hidden directories.
KeepDirHidden(d, dirs_to_exclude) == d \notin dirs_to_exclude

\* Lines 121-127: the directories the walk descends into.
KeepDir(d, dirs_to_exclude) == d \notin dirs_to_exclude /\ ~StartsWithDot(d)

\* Lines 129-132: the files of one directory that go into files_to_zip.
KeepFile(f, files_to_exclude) == ~StartsWithDot(f) /\ f \notin files_to_exclude

\* Lines 116-132: files_to_zip, the top-down walk from directory dir over the
\* files fs, pruning the directories as it goes.
RECURSIVE Walk(_, _, _, _)
Walk(dir, fs, dirs_to_exclude, files_to_exclude) ==
    LET below == {p \in fs : Under(dir, p)}
        here == {p \in below : Len(p) = Len(dir) + 1}
        dirs == {p[Len(dir) + 1] : p \in below \ here}
        kept == {d \in dirs : KeepDir(d, dirs_to_exclude)}
    IN  {p \in here : KeepFile(Basename(p), files_to_exclude)}
        \cup UNION {Walk(Append(dir, d), fs, dirs_to_exclude, files_to_exclude) : d \in kept}

\* Lines 144-148: the archive is opened for writing, which empties it, and
\* every file of files_to_zip is written under its path relative to root_dir.
ZipEntries(files_to_zip, root_dir) == {RelPath(p, root_dir) : p \in files_to_zip}

\* Lines 97-148: _zip(component_name, target, root_dir, ...).
Zip(component, target, root_dir, dirs_to_exclude, files_to_exclude) ==
    LET files_to_zip == Walk(root_dir, files, dirs_to_exclude, files_to_exclude)
    IN  /\ manifests' = [manifests EXCEPT ![component] = files_to_zip]
        /\ zipContent' = [zipContent EXCEPT ![target] = ZipEntries(files_to_zip, root_dir)]
        /\ zipWrites' = [zipWrites EXCEPT ![target] = @ + 1]
        /\ files' = files \cup {<<target>>}

----------------------------------------------------------------------------
(* export                                                                  *)

\* Lines 165-169: path_ops.rm(constants.WEB_STATIC_DIR); command = "export".
\* Removing a directory that is not there is no error.
RmStatic ==
    /\ pc = "idle"
    /\ files' = {p \in files : ~Under(WEB_STATIC_DIR, p)}
    /\ command' = "export"
    /\ trace' = Append(trace, "rm")
    /\ pc' = "sitemap"
    /\ UNCHANGED <<backend, frontend, zip, deploy_url, files0, zipContent, zipWrites,
                   manifests, sitemap, spawned, exitCode, raised>>
    /\ UNCHANGED <<cfgVars, auxVars>>

\* Lines 81-89: the content generate_sitemap_config writes.
SitemapConfig(url) == [siteUrl |-> url, generateRobotsTxt |-> TRUE]

\* A variant that ignores the frontend flag.
SitemapWantedAnyComponent == deploy_url # None

\* Lines 171-173: whether the sitemap is generated.
SitemapWanted == frontend /\ deploy_url # None

\* Lines 171-175: generate_sitemap_config(deploy_url); command = "export-sitemap".
GenerateSitemap ==
    /\ pc = "sitemap"
    /\ IF SitemapWanted
       THEN /\ sitemap' = Append(sitemap, SitemapConfig(deploy_url))
            /\ command' = "export-sitemap"
            /\ trace' = Append(trace, "sitemap")
       ELSE UNCHANGED <<sitemap, command, trace>>
    /\ pc' = "spawn"
    /\ UNCHANGED <<backend, frontend, zip, deploy_url, files, files0, zipContent,
                   zipWrites, manifests, spawned, exitCode, raised>>
    /\ UNCHANGED <<cfgVars, auxVars>>

\* A variant that builds whatever the frontend flag.
BuildWantedAlways == TRUE

\* Line 171: the build runs inside "if frontend:".
BuildWanted == frontend

\* Lines 188-193: processes.new_process([..., "run", command], ...).
NewProcess ==
    /\ pc = "spawn"
    /\ IF BuildWanted
       THEN /\ spawned' = Append(spawned, command)
            /\ trace' = Append(trace, "spawn")
            /\ pc' = "build"
       ELSE /\ pc' = "zip_frontend"
            /\ UNCHANGED <<spawned, trace>>
    /\ UNCHANGED <<backend, frontend, zip, deploy_url, command, files, files0,
                   zipContent, zipWrites, manifests, sitemap, exitCode, raised>>
    /\ UNCHANGED <<cfgVars, auxVars>>

\* processes.show_progress: a build subprocess that exits with a non-zero
\* status is a BuildError.
ShowProgressRaises(status) == status # 0

\* A variant that swallows the build error and goes on.
AfterBuildErrorContinue(status) == "zip_frontend"

\* Line 194: export calls show_progress with no handler around it, so its
\* exception leaves export; otherwise export goes on to the zip steps.
AfterBuild(status) == IF ShowProgressRaises(status) THEN "raised" ELSE "zip_frontend"

\* Line 194: processes.show_progress(...): the subprocess runs to its exit,
\* leaving what it built in the static-output directory.
ShowProgress ==
    /\ pc = "build"
    /\ \E status \in ExitCodes, built \in SUBSET BuildOutputs :
          /\ exitCode' = status
          /\ files' = files \cup built
          /\ pc' = AfterBuild(status)
          /\ raised' = IF AfterBuild(status) = "raised" THEN "BuildError" ELSE raised
    /\ trace' = Append(trace, "build")
    /\ UNCHANGED <<backend, frontend, zip, deploy_url, command, files0, zipContent,
                   zipWrites, manifests, sitemap, spawned>>
    /\ UNCHANGED <<cfgVars, auxVars>>

\* Lines 197-205: if zip: if frontend: _zip(FRONTEND, FRONTEND_ZIP, ".web/_static", ...).
ZipFrontend ==
    /\ pc = "zip_frontend"
    /\ IF zip /\ frontend
       THEN /\ Zip("Frontend", FRONTEND_ZIP, WEB_STATIC_DIR, FrontendDirsToExclude,
                   FilesToExclude)
            /\ trace' = Append(trace, "zip_frontend")
       ELSE UNCHANGED <<manifests, zipContent, zipWrites, files, trace>>
    /\ pc' = "zip_backend"
    /\ UNCHANGED <<backend, frontend, zip, deploy_url, command, files0, sitemap,
                   spawned, exitCode, raised>>
    /\ UNCHANGED <<cfgVars, auxVars>>

\* A variant that ignores the backend flag.
BackendZipWantedWheneverZip == zip

\* Lines 197, 206: if zip: ... if backend:
BackendZipWanted == zip /\ backend

\* Lines 206-213: _zip(BACKEND, BACKEND_ZIP, ".", {"assets", "__pycache__"}, ...).
ZipBackend ==
    /\ pc = "zip_backend"
    /\ IF BackendZipWanted
       THEN /\ Zip("Backend", BACKEND_ZIP, BACKEND_ROOT, BackendDirsToExclude,
                   FilesToExclude)
            /\ trace' = Append(trace, "zip_backend")
       ELSE UNCHANGED <<manifests, zipContent, zipWrites, files, trace>>
    /\ pc' = "done"
    /\ UNCHANGED <<backend, frontend, zip, deploy_url, command, files0, sitemap,
                   spawned, exitCode, raised>>
    /\ UNCHANGED <<cfgVars, auxVars>>

\* No _zip call has been made for a component.
NoManifest == {<<>>}

\* No JSON file is being looked at.
JsonIdle ==
    /\ jsonExists = {}
    /\ jsonText = <<>>
    /\ json0 = <<>>
    /\ jsonCalls = <<>>

\* None of the functions of exec.py has been called.
RunIdle ==
    /\ run_fn = "none"
    /\ run_port = "None"
    /\ depsOk = TRUE
    /\ is_windows = FALSE
    /\ rpc = "idle"
    /\ environ0 = <<>>
    /\ watches = 0
    /\ procs = <<>>
    /\ outLines = <<>>
    /\ reports = <<>>
    /\ rtrace = <<>>
    /\ rraised = "none"
    /\ app_module = <<>>

\* No accessor is being called.
AccIdle ==
    /\ accessor = "none"
    /\ accSelf = <<>>
    /\ accResult = <<>>
    /\ accDone = FALSE

\* No archive is being written file by file.
ZipIdle ==
    /\ zpc = <<"none", "idle">>
    /\ zmanifest = {}
    /\ zqueue = {}
    /\ unreadable = {}
    /\ created = {}

\* setup_frontend_prod has not been called.
SetupIdle ==
    /\ spc = "idle"
    /\ disable_telemetry = TRUE
    /\ strace = <<>>

AuxIdle ==
    /\ JsonIdle
    /\ RunIdle
    /\ AccIdle
    /\ ZipIdle
    /\ SetupIdle

\* Before export is called.
ExportIdle ==
    /\ pc = "idle"
    /\ command = "export"
    /\ files0 = files
    /\ zipContent = [t \in Targets |-> IF <<t>> \in files THEN StaleEntries ELSE {}]
    /\ zipWrites = [t \in Targets |-> 0]
    /\ manifests = [c \in {"Frontend", "Backend"} |-> NoManifest]
    /\ sitemap = <<>>
    /\ spawned = <<>>
    /\ exitCode = None
    /\ trace = <<>>
    /\ raised = "none"

\* Before get_config is called.
ConfigIdle ==
    /\ cpc = "get_config"
    /\ args = NoKwargs
    /\ self = NoKwargs
    /\ idx = 1
    /\ console = <<>>
    /\ mark = 0
    /\ overridden = {}
    /\ error = "none"
    /\ pass = 0

ExportInit ==
    /\ backend \in BOOLEAN
    /\ frontend \in BOOLEAN
    /\ zip \in BOOLEAN
    /\ deploy_url \in DeployUrls
    /\ files \in {S \in SUBSET FileUniverse : Cardinality(S) <= MaxFiles}
    /\ ExportIdle
    /\ importable = FALSE
    /\ reload = FALSE
    /\ kwargs = NoKwargs
    /\ environ = NoKwargs
    /\ ConfigIdle
    /\ AuxIdle

ExportNext ==
    \/ RmStatic
    \/ GenerateSitemap
    \/ NewProcess
    \/ ShowProgress
    \/ ZipFrontend
    \/ ZipBackend

ExportSpec == ExportInit /\ [][ExportNext]_vars

----------------------------------------------------------------------------

ConfigInit ==
    /\ importable \in BOOLEAN
    /\ reload \in BOOLEAN
    /\ kwargs \in AllKwargs
    /\ (~importable => kwargs = NoKwargs)
    /\ environ \in AllEnvirons
    /\ ConfigIdle
    /\ backend = FALSE
    /\ frontend = FALSE
    /\ zip = FALSE
    /\ deploy_url = None
    /\ files = {}
    /\ ExportIdle
    /\ AuxIdle

ConfigNext ==
    \/ GetConfig
    \/ BaseInit
    \/ CheckDeprecatedValues
    \/ UpdateFromEnvStep
    \/ ConfigReturns

ConfigSpec == ConfigInit /\ [][ConfigNext]_vars

\* The configuration is not being resolved.
ConfigParked ==
    /\ importable = FALSE
    /\ reload = FALSE
    /\ kwargs = NoKwargs
    /\ environ = NoKwargs
    /\ ConfigIdle

\* No export is being run.
ExportParked ==
    /\ backend = FALSE
    /\ frontend = FALSE
    /\ zip = FALSE
    /\ deploy_url = None
    /\ files = {}
    /\ ExportIdle

----------------------------------------------------------------------------
(* update_json_file and its two callers (reflex/utils/build.py).           *)
(*                                                                         *)
(* A Python dict is a sequence of <<key, value>> items in insertion order; *)
(* a value is <<"int", n, "">> or <<"str", 0, s>>.  The text of a file is  *)
(* a sequence of tokens <<kind, key, quoted, text>>: an opening brace, one *)
(* token per member, a closing brace.                                      *)

\* At most this many update_json_file calls are made.
MaxJsonCalls == 3

PyInt(n) == <<"int", n, "">>
PyStr(s) == <<"str", 0, s>>

\* The integers that occur in the JSON files of the model.
JsonInts == 0 .. 9

DictKeys(d) == {d[i][1] : i \in 1 .. Len(d)}

DictGet(d, key) == d[CHOOSE i \in 1 .. Len(d) : d[i][1] = key][2]

\* d[key] = value: an existing key keeps its position.
DictSet(d, key, value) ==
    IF key \in DictKeys(d)
    THEN LET i == CHOOSE j \in 1 .. Len(d) : d[j][1] = key
         IN SubSeq(d, 1, i - 1) \o <<(<<key, value>>)>> \o SubSeq(d, i + 1, Len(d))
    ELSE Append(d, <<key, value>>)

\* A variant that forgets the object read from the file.
DictReplace(d, u) == u

\* Line 36: json_object.update(update_dict).
RECURSIVE DictUpdate(_, _)
DictUpdate(d, u) ==
    IF Len(u) = 0 THEN d
    ELSE DictUpdate(DictSet(d, Head(u)[1], Head(u)[2]), Tail(u))

LBrace == <<"{", "", FALSE, "">>
RBrace == <<"}", "", FALSE, "">>

\* Line 38: json.dump writes an int as its decimal digits and a str between
\* quotes, the members in the order of the dict.
JsonMember(key, value) ==
    <<"member", key, value[1] = "str",
      IF value[1] = "str" THEN value[3] ELSE ToString(value[2])>>

RECURSIVE JsonDumpMembers(_)
JsonDumpMembers(d) ==
    IF Len(d) = 0 THEN <<>>
    ELSE <<JsonMember(Head(d)[1], Head(d)[2])>> \o JsonDumpMembers(Tail(d))

JsonDump(d) == <<LBrace>> \o JsonDumpMembers(d) \o <<RBrace>>

\* The value a member's text denotes.
JsonValue(tok) ==
    IF tok[3] THEN PyStr(tok[4])
    ELSE PyInt(CHOOSE n \in JsonInts : ToString(n) = tok[4])

\* Line 35: json.load of the text of an object.
RECURSIVE JsonLoadMembers(_, _)
JsonLoadMembers(d, toks) ==
    IF Len(toks) = 0 THEN d
    ELSE JsonLoadMembers(DictSet(d, Head(toks)[2], JsonValue(Head(toks))), Tail(toks))

JsonLoad(text) == JsonLoadMembers(<<>>, SubSeq(text, 2, Len(text) - 1))

\* Lines 45 and 51: constants.REFLEX_JSON and constants.ENV_JSON.
REFLEX_JSON == "reflex.json"
ENV_JSON == "env.json"

JsonPaths == {REFLEX_JSON, ENV_JSON}

\* Line 43: the values random.getrandbits(128) is drawn from.
ProjectHashes == {0, 7}

\* Line 45: the update_dict of set_reflex_project_hash.
ProjectHashDict(project_hash) == <<(<<"project_hash", PyInt(project_hash)>>)>>

\* Lines 52-56: the update_dict of set_env_json.
EnvJsonDict ==
    << <<"uploadUrl", PyStr("http://localhost:8000/_upload")>>,
       <<"eventUrl", PyStr("ws://localhost:8000/_event")>>,
       <<"pingUrl", PyStr("http://localhost:8000/ping")>> >>

\* The update_dict arguments of the model.
UpdateDicts ==
    {EnvJsonDict, <<(<<"a", PyInt(2)>>)>>}
    \cup {ProjectHashDict(h) : h \in ProjectHashes}

\* The objects a file may hold before the first call.
JsonObjects0 ==
    { <<>>,
      <<(<<"a", PyInt(1)>>)>>,
      << <<"uploadUrl", PyStr("old")>>, <<"project_hash", PyInt(5)>> >> }

\* Lines 21-38: update_json_file.  touch creates a missing file with zero
\* bytes; a file of zero bytes is given the text of an empty object; the
\* object read is updated and written back.
UpdateJsonFile(file_path, update_dict) ==
    /\ Len(jsonCalls) < MaxJsonCalls
    /\ LET touched == jsonText[file_path]
           text == IF Len(touched) = 0 THEN JsonDump(<<>>) ELSE touched
           json_object == DictUpdate(JsonLoad(text), update_dict)
       IN /\ jsonExists' = jsonExists \cup {file_path}
          /\ jsonText' = [jsonText EXCEPT ![file_path] = JsonDump(json_object)]
    /\ jsonCalls' = Append(jsonCalls, <<file_path, update_dict>>)
    /\ UNCHANGED json0
    /\ UNCHANGED <<cfgVars, expVars, runVars, accVars, zipVars>>

\* Lines 41-45: set_reflex_project_hash.
SetReflexProjectHash ==
    /\ \E project_hash \in ProjectHashes :
          UpdateJsonFile(REFLEX_JSON, ProjectHashDict(project_hash))
    /\ UNCHANGED setupVars

\* Lines 48-57: set_env_json.
SetEnvJson ==
    /\ UpdateJsonFile(ENV_JSON, EnvJsonDict)
    /\ UNCHANGED setupVars

\* A direct call of update_json_file.
UpdateJsonFileCall ==
    /\ \E file_path \in JsonPaths, update_dict \in UpdateDicts :
          UpdateJsonFile(file_path, update_dict)
    /\ UNCHANGED setupVars

\* Each file is missing, of zero bytes, or holds an object: <<kind, object>>.
JsonFiles0 ==
    {<<"missing", <<>> >>, <<"empty", <<>> >>}
    \cup {<<"object", d>> : d \in JsonObjects0}

JsonInit ==
    /\ json0 \in [JsonPaths -> JsonFiles0]
    /\ jsonExists = {p \in JsonPaths : json0[p][1] # "missing"}
    /\ jsonText = [p \in JsonPaths |->
                      IF json0[p][1] = "object" THEN JsonDump(json0[p][2]) ELSE <<>>]
    /\ jsonCalls = <<>>
    /\ ConfigParked
    /\ ExportParked
    /\ RunIdle
    /\ AccIdle
    /\ ZipIdle
    /\ SetupIdle

JsonNext ==
    \/ SetReflexProjectHash
    \/ SetEnvJson
    \/ UpdateJsonFileCall

JsonSpec == JsonInit /\ [][JsonNext]_vars

----------------------------------------------------------------------------
(* run_frontend, run_frontend_prod, run_backend, run_backend_prod          *)
(* (reflex/utils/exec.py).  A line of output is a sequence of pieces whose *)
(* concatenation is the line; the marker and the separator are pieces of   *)
(* their own.                                                              *)

\* The frontend process writes at most this many lines.
MaxLines == 2

\* Line 39: the phrase that marks the line announcing the server.
READY_MARKER == "ready started server on"

\* Line 40: the separator the line is split on.
URL_SEPARATOR == "url: "

\* The pieces str.strip() removes.
Whitespace == {" ", "\n"}

\* The lines the frontend process may write.
LineUniverse ==
    { <<READY_MARKER, " ", "http://localhost:3000">>,
      <<"- ", READY_MARKER, " ", "0.0.0.0:3000,", " ", URL_SEPARATOR, "http://localhost:3000", "\n">>,
      <<READY_MARKER, " ", URL_SEPARATOR, "http://a", " ", URL_SEPARATOR, " ", "http://b", " ", "\n">>,
      <<READY_MARKER, "\n">>,
      <<URL_SEPARATOR, "http://localhost:3000", "\n">>,
      <<"compiling", "\n">> }

\* piece in line
Contains(line, piece) == \E i \in 1 .. Len(line) : line[i] = piece

\* line.split(sep)[-1]: what follows the last separator, the whole line
\* when there is none.
RECURSIVE SplitLast(_, _)
SplitLast(line, sep) ==
    IF Contains(line, sep)
    THEN SplitLast(SubSeq(line, 1 + (CHOOSE i \in 1 .. Len(line) : line[i] = sep), Len(line)), sep)
    ELSE line

\* str.lstrip(chars) and str.rstrip(chars)
RECURSIVE LStrip(_, _)
LStrip(str, chars) ==
    IF Len(str) > 0 /\ Head(str) \in chars THEN LStrip(Tail(str), chars) ELSE str

RECURSIVE RStrip(_, _)
RStrip(str, chars) ==
    IF Len(str) > 0 /\ str[Len(str)] \in chars
    THEN RStrip(SubSeq(str, 1, Len(str) - 1), chars) ELSE str

\* str.strip()
Strip(str) == RStrip(LStrip(str, Whitespace), Whitespace)

\* A variant that does not strip.
UrlOfUnstripped(line) == SplitLast(line, URL_SEPARATOR)

\* Line 40: url = line.split("url: ")[-1].strip().
UrlOf(line) == Strip(SplitLast(line, URL_SEPARATOR))

\* A variant that starts the asset watch after the frontend process.
RunFrontendOrderWatchLast == <<"validate", "port", "spawn", "watch">>

\* Lines 52-59: the statements of run_frontend, in order.
RunFrontendOrder == <<"watch", "validate", "port", "spawn">>

\* A variant that validates before it sets the port.
RunFrontendProdOrderValidateFirst == <<"validate", "port", "spawn">>

\* Lines 70-75: the statements of run_frontend_prod, in order.
RunFrontendProdOrder == <<"port", "validate", "spawn">>

\* Lines 90-99 and 114-150: get_config and app_module, then the server.
RunBackendOrder == <<"config", "serve">>

OrderOf(fn) ==
    CASE fn = "run_frontend" -> RunFrontendOrder
      [] fn = "run_frontend_prod" -> RunFrontendProdOrder
      [] fn = "run_backend" -> RunBackendOrder
      [] fn = "run_backend_prod" -> RunBackendOrder

\* The statement that follows step; after the last one the output of the
\* process is read.
Following(fn, step) ==
    LET order == OrderOf(fn)
        i == CHOOSE j \in 1 .. Len(order) : order[j] = step
    IN IF i < Len(order) THEN order[i + 1] ELSE "stream"

Frontends == {"run_frontend", "run_frontend_prod"}

\* The values of the argument port.
RunPorts == {None, "4000"}

\* os.environ when the function is called: the variables of the
\* configuration the model varies, and PORT set or not.
RunEnvirons ==
    LET cfg == {e \in AllEnvirons : DOMAIN e \subseteq {"APP_NAME", "FRONTEND_PORT"}}
    IN cfg \cup {[k \in DOMAIN e \cup {"PORT"} |-> IF k = "PORT" THEN "9999" ELSE e[k]] : e \in cfg}

\* Lines 24-25 and 52: AssetFolderWatch(root).start().
StartWatchingAssetsFolder ==
    /\ rpc = "watch"
    /\ watches' = watches + 1
    /\ rtrace' = Append(rtrace, "watch")
    /\ rpc' = Following(run_fn, "watch")
    /\ UNCHANGED <<run_fn, run_port, depsOk, is_windows, environ0, procs, outLines,
                   reports, rraised, app_module>>
    /\ UNCHANGED <<cfgVars, expVars, jsonVars, accVars, zipVars, setupVars>>

\* prerequisites.validate_frontend_dependencies raises when the
\* dependencies are not valid.
ValidationRaises == ~depsOk

\* Lines 54 and 72: prerequisites.validate_frontend_dependencies(init=False).
ValidateFrontendDependencies ==
    /\ rpc = "validate"
    /\ rtrace' = Append(rtrace, "validate")
    /\ IF ValidationRaises
       THEN rpc' = "raised" /\ rraised' = "dependency"
       ELSE rpc' = Following(run_fn, "validate") /\ UNCHANGED rraised
    /\ UNCHANGED <<run_fn, run_port, depsOk, is_windows, environ0, watches, procs,
                   outLines, reports, app_module>>
    /\ UNCHANGED <<cfgVars, expVars, jsonVars, accVars, zipVars, setupVars>>

\* Lines 58 and 70 evaluate get_config() only when port is None; lines 90
\* and 115 always do, and so does line 265 of build.py before it calls
\* export.
NeedsConfig ==
    \/ rpc = "config"
    \/ (rpc = "port" /\ run_port = None)
    \/ (spc = "export" /\ pc = "not_called")

\* Lines 58, 70, 90, 115: the call get_config().
CallGetConfig ==
    /\ NeedsConfig
    /\ cpc = "not_called"
    /\ cpc' = "get_config"
    /\ UNCHANGED <<kwargs, environ, importable, reload, args, self, idx, console,
                   mark, overridden, error, pass>>
    /\ UNCHANGED <<expVars, auxVars>>

\* The exception of get_config leaves the function.
GetConfigRaised ==
    /\ NeedsConfig
    /\ cpc = "raised"
    /\ rpc' = "raised"
    /\ rraised' = error
    /\ UNCHANGED <<run_fn, run_port, depsOk, is_windows, environ0, watches, procs,
                   outLines, reports, rtrace, app_module>>
    /\ UNCHANGED <<cfgVars, expVars, jsonVars, accVars, zipVars, setupVars>>

\* A variant that ignores the configuration.
PortValueDefault(port) == IF port = None THEN "3000" ELSE port

\* Lines 58 and 70: str(get_config().frontend_port if port is None else port).
PortValue(port) == IF port = None THEN ToString(self["frontend_port"]) ELSE port

\* Lines 58 and 70: os.environ["PORT"] = ...
SetPort ==
    /\ rpc = "port"
    /\ run_port # None \/ cpc = "returned"
    /\ environ' = [k \in DOMAIN environ \cup {"PORT"} |->
                      IF k = "PORT" THEN PortValue(run_port) ELSE environ[k]]
    /\ rtrace' = Append(rtrace, "port")
    /\ rpc' = Following(run_fn, "port")
    /\ UNCHANGED <<run_fn, run_port, depsOk, is_windows, environ0, watches, procs,
                   outLines, reports, rraised, app_module>>
    /\ UNCHANGED <<kwargs, importable, reload, cpc, args, self, idx, console, mark,
                   overridden, error, pass>>
    /\ UNCHANGED <<expVars, jsonVars, accVars, zipVars, setupVars>>

\* The env argument of processes.new_process when none is passed.
NoEnv == [k \in {} |-> ""]

\* A process: <<what was started, the command, os.environ at that moment,
\* the env argument, the asset watches running at that moment>>.
Process(kind, cmd, env) == <<kind, cmd, environ, env, watches>>

\* Lines 34-36 with the commands of lines 59 and 75: processes.new_process.
RunProcessAndLaunchUrl ==
    /\ rpc = "spawn"
    /\ run_fn \in Frontends
    /\ procs' = Append(procs, Process(run_fn,
                   <<"get_package_manager()", "run",
                     IF run_fn = "run_frontend" THEN "dev" ELSE "prod">>, NoEnv))
    /\ rtrace' = Append(rtrace, "spawn")
    /\ rpc' = Following(run_fn, "spawn")
    /\ UNCHANGED <<run_fn, run_port, depsOk, is_windows, environ0, watches, outLines,
                   reports, rraised, app_module>>
    /\ UNCHANGED <<cfgVars, expVars, jsonVars, accVars, zipVars, setupVars>>

\* processes.stream_logs yields the lines the process writes, one by one,
\* until the process exits.
StreamLogsYields(line) == line \in LineUniverse /\ Len(outLines) < MaxLines

\* Lines 38-41: one iteration of the loop over the lines.
StreamLine ==
    /\ rpc = "stream"
    /\ \E line \in LineUniverse :
          /\ StreamLogsYields(line)
          /\ outLines' = Append(outLines, line)
          /\ reports' = IF Contains(line, READY_MARKER)
                        THEN Append(reports, UrlOf(line))
                        ELSE reports
    /\ UNCHANGED <<run_fn, run_port, depsOk, is_windows, rpc, environ0, watches, procs,
                   rtrace, rraised, app_module>>
    /\ UNCHANGED <<cfgVars, expVars, jsonVars, accVars, zipVars, setupVars>>

\* Line 38: the stream ends and the function returns.
ProcessExits ==
    /\ rpc = "stream"
    /\ rpc' = "done"
    /\ UNCHANGED <<run_fn, run_port, depsOk, is_windows, environ0, watches, procs,
                   outLines, reports, rtrace, rraised, app_module>>
    /\ UNCHANGED <<cfgVars, expVars, jsonVars, accVars, zipVars, setupVars>>

\* Lines 91 and 118: f"{config.app_name}.{config.app_name}:{constants.APP_VAR}".
AppModule(app_name) == <<app_name, ".", app_name, ":", "APP_VAR">>

\* Lines 90-91 and 115-118: config = get_config() has returned and
\* app_module is built.
BuildAppModule ==
    /\ rpc = "config"
    /\ cpc = "returned"
    /\ app_module' = AppModule(self["app_name"])
    /\ rtrace' = Append(rtrace, "module")
    /\ rpc' = Following(run_fn, "config")
    /\ UNCHANGED <<run_fn, run_port, depsOk, is_windows, environ0, watches, procs,
                   outLines, reports, rraised>>
    /\ UNCHANGED <<cfgVars, expVars, jsonVars, accVars, zipVars, setupVars>>

\* Lines 92-99: uvicorn.run(app=f"{app_module}.{constants.API_VAR}", ...).
UvicornRun ==
    /\ rpc = "serve"
    /\ run_fn = "run_backend"
    /\ procs' = Append(procs, Process(run_fn, app_module \o <<".", "API_VAR">>, NoEnv))
    /\ rtrace' = Append(rtrace, "spawn")
    /\ rpc' = "done"
    /\ UNCHANGED <<run_fn, run_port, depsOk, is_windows, environ0, watches, outLines,
                   reports, rraised, app_module>>
    /\ UNCHANGED <<cfgVars, expVars, jsonVars, accVars, zipVars, setupVars>>

\* Line 149: env={constants.SKIP_COMPILE_ENV_VAR: "yes"}.
BackendProdEnv == [k \in {"SKIP_COMPILE_ENV_VAR"} |-> "yes"]

\* Lines 119-137: the program and the application argument of the command
\* (host, port, timeout, log level and worker count are left out).
BackendProdCommand ==
    IF is_windows
    THEN <<"uvicorn">> \o app_module
    ELSE <<"gunicorn">> \o app_module \o <<"()">>

\* Lines 145-150: processes.new_process(command, run=True, show_logs=True,
\* env=...).
NewBackendProcess ==
    /\ rpc = "serve"
    /\ run_fn = "run_backend_prod"
    /\ procs' = Append(procs, Process(run_fn, BackendProdCommand, BackendProdEnv))
    /\ rtrace' = Append(rtrace, "spawn")
    /\ rpc' = "done"
    /\ UNCHANGED <<run_fn, run_port, depsOk, is_windows, environ0, watches, outLines,
                   reports, rraised, app_module>>
    /\ UNCHANGED <<cfgVars, expVars, jsonVars, accVars, zipVars, setupVars>>

RunInit ==
    /\ run_fn \in {"run_frontend", "run_frontend_prod", "run_backend", "run_backend_prod"}
    /\ run_port \in RunPorts
    /\ (run_fn \notin Frontends => run_port = "4000")
    /\ depsOk \in BOOLEAN
    /\ (run_fn \notin Frontends => depsOk)
    /\ is_windows \in BOOLEAN
    /\ (run_fn # "run_backend_prod" => ~is_windows)
    /\ rpc = OrderOf(run_fn)[1]
    /\ importable \in BOOLEAN
    /\ reload = FALSE
    /\ kwargs \in {KwargsOver({"app_name"}), KwargsOver({"app_name", "frontend_port"}), NoKwargs}
    /\ (kwargs = NoKwargs) = ~importable
    /\ environ \in RunEnvirons
    /\ environ0 = environ
    /\ cpc = "not_called"
    /\ args = NoKwargs
    /\ self = NoKwargs
    /\ idx = 1
    /\ console = <<>>
    /\ mark = 0
    /\ overridden = {}
    /\ error = "none"
    /\ pass = 0
    /\ watches = 0
    /\ procs = <<>>
    /\ outLines = <<>>
    /\ reports = <<>>
    /\ rtrace = <<>>
    /\ rraised = "none"
    /\ app_module = <<>>
    /\ ExportParked
    /\ JsonIdle
    /\ AccIdle
    /\ ZipIdle
    /\ SetupIdle

RunNext ==
    \/ StartWatchingAssetsFolder
    \/ ValidateFrontendDependencies
    \/ CallGetConfig
    \/ GetConfig
    \/ BaseInit
    \/ CheckDeprecatedValues
    \/ UpdateFromEnvStep
    \/ ConfigReturns
    \/ GetConfigRaised
    \/ SetPort
    \/ RunProcessAndLaunchUrl
    \/ StreamLine
    \/ ProcessExits
    \/ BuildAppModule
    \/ UvicornRun
    \/ NewBackendProcess

RunSpec == RunInit /\ [][RunNext]_vars

----------------------------------------------------------------------------
(* DBConfig.get_url and Config.get_event_namespace (reflex/config.py).     *)
(* A string is a sequence of pieces: single characters where the code      *)
(* looks at characters, whole words elsewhere.  None and the empty string  *)
(* are both <<>>; an Optional[int] is <<>> or <<n>>.                        *)

\* A configured event namespace has at most this many characters.
MaxNamespaceLen == 3

\* The DBConfig objects of the model: <<engine, username, password, host,
\* port, database>>.
DBConfigs ==
    {<<"postgresql">>, <<"sqlite">>}
    \X {<<>>, <<"u">>, <<"a", " ", "b">>, <<"u", "@", "x">>}
    \X {<<>>, <<"p", "w">>, <<"p", "@", "s", "s">>, <<":">>}
    \X {<<>>, <<"h">>}
    \X {<<>>, <<0>>, <<5432>>}
    \X {<<"d">>, <<"reflex.db">>}

\* urllib.parse.quote_plus of one character: a space becomes "+", a
\* character outside the unreserved set its percent escape.
QuoteChar(c) ==
    CASE c = " " -> "+"
      [] c = "@" -> "%40"
      [] c = ":" -> "%3A"
      [] c = "/" -> "%2F"
      [] OTHER -> c

\* urllib.parse.quote_plus
RECURSIVE QuotePlus(_)
QuotePlus(str) ==
    IF Len(str) = 0 THEN <<>> ELSE <<QuoteChar(Head(str))>> \o QuotePlus(Tail(str))

\* Python truthiness of a str and of an Optional[int].
TruthyStr(str) == Len(str) > 0
TruthyInt(opt) == Len(opt) > 0 /\ opt[1] # 0

\* Lines 110-112: the local variable host.
HostSegment(host, port) ==
    IF TruthyStr(host) /\ TruthyInt(port)
    THEN host \o <<":", ToString(port[1])>>
    ELSE host

\* A variant that writes the password whenever there is one.
UrlPathPasswordAlways(username, password, host) ==
    IF TruthyStr(password) THEN username \o <<":">> \o password \o <<"@">> \o host
    ELSE IF TruthyStr(username) THEN username \o <<"@">> \o host
    ELSE host

\* Lines 116-119: the local variable path, from the quoted username and
\* password and the host segment.
UrlPath(username, password, host) ==
    IF TruthyStr(username)
    THEN IF TruthyStr(password)
         THEN username \o <<":">> \o password \o <<"@">> \o host
         ELSE username \o <<"@">> \o host
    ELSE host

\* Lines 104-121: DBConfig.get_url.
GetUrl(engine, db_username, db_password, db_host, db_port, database) ==
    LET host == HostSegment(db_host, db_port)
        username == IF TruthyStr(db_username) THEN QuotePlus(db_username) ELSE <<>>
        password == IF TruthyStr(db_password) THEN QuotePlus(db_password) ELSE <<>>
        path == UrlPath(username, password, host)
    IN engine \o <<"://">> \o path \o <<"/">> \o database

\* The strings of at most n characters over an alphabet.
RECURSIVE StringsUpTo(_, _)
StringsUpTo(alphabet, n) ==
    IF n = 0 THEN {<<>>}
    ELSE LET shorter == StringsUpTo(alphabet, n - 1)
         IN shorter \cup {Append(str, c) : str \in shorter, c \in alphabet}

\* The values of Config.event_namespace.
Namespaces == StringsUpTo({"/", "a", "b"}, MaxNamespaceLen)

\* The values constants.Endpoint.EVENT.get_url() may have.
EventUrls ==
    { <<"ws", "://", "localhost:8000", "/", "_event">>,
      <<"wss", "://", "h", "/", "api", "/", "_event", "?", "x=1">>,
      <<"ws", "://", "h">> }

\* A variant that strips on the left only.
StripSlashLeft(str) == LStrip(str, {"/"})

\* Line 265: str.strip("/").
StripSlash(str) == RStrip(LStrip(str, {"/"}), {"/"})

\* urllib.parse.urlsplit(url).path: what follows scheme and network
\* location, up to the query or the fragment.
RECURSIVE UntilQuery(_)
UntilQuery(str) ==
    IF Len(str) = 0 \/ Head(str) \in {"?", "#"} THEN <<>>
    ELSE <<Head(str)>> \o UntilQuery(Tail(str))

UrlsplitPath(url) == UntilQuery(SubSeq(url, 4, Len(url)))

\* Lines 258-268: Config.get_event_namespace.
GetEventNamespace(event_namespace, event_url) ==
    IF TruthyStr(event_namespace)
    THEN <<"/">> \o StripSlash(event_namespace)
    ELSE UrlsplitPath(event_url)

\* Lines 104-121: a call of get_url on a DBConfig.
GetUrlCall ==
    /\ accessor = "get_url"
    /\ ~accDone
    /\ accResult' = GetUrl(accSelf[1], accSelf[2], accSelf[3], accSelf[4], accSelf[5],
                           accSelf[6])
    /\ accDone' = TRUE
    /\ UNCHANGED <<accessor, accSelf>>
    /\ UNCHANGED <<cfgVars, expVars, jsonVars, runVars, zipVars, setupVars>>

\* Lines 258-268: a call of get_event_namespace on a Config.
GetEventNamespaceCall ==
    /\ accessor = "get_event_namespace"
    /\ ~accDone
    /\ accResult' = GetEventNamespace(accSelf[1], accSelf[2])
    /\ accDone' = TRUE
    /\ UNCHANGED <<accessor, accSelf>>
    /\ UNCHANGED <<cfgVars, expVars, jsonVars, runVars, zipVars, setupVars>>

AccInit ==
    /\ accessor \in {"get_url", "get_event_namespace"}
    /\ accSelf \in IF accessor = "get_url"
                   THEN DBConfigs
                   ELSE Namespaces \X EventUrls
    /\ accResult = <<>>
    /\ accDone = FALSE
    /\ ConfigParked
    /\ ExportParked
    /\ JsonIdle
    /\ RunIdle
    /\ ZipIdle
    /\ SetupIdle

AccNext ==
    \/ GetUrlCall
    \/ GetEventNamespaceCall

AccSpec == AccInit /\ [][AccNext]_vars

----------------------------------------------------------------------------
(* The zip steps of export (reflex/utils/build.py lines 197-213), with     *)
(* _zip taken one file at a time, files appearing on disk meanwhile, and   *)
(* files and directories that cannot be read.                              *)

\* At most this many files appear on disk while export is zipping.
MaxCreated == 1

\* At most this many files or directories cannot be read.
MaxUnreadable == 1

\* The files that may be on disk during the zip steps.
ZipFileUniverse ==
    { WEB_STATIC_DIR \o << <<"index", ".", "html">> >>,
      WEB_STATIC_DIR \o << <<"_next">>, <<"app", ".", "js">> >>,
      WEB_STATIC_DIR \o << <<".", "nojekyll">> >>,
      << <<"app">>, <<"app", ".", "py">> >>,
      << <<"assets">>, <<"logo", ".", "png">> >>,
      << FRONTEND_ZIP >> }

\* The directories above a file.
DirsAbove(p) == {SubSeq(p, 1, k) : k \in 1 .. Len(p) - 1}

\* Line 119: os.walk is called without onerror, so a directory that cannot
\* be listed is passed over, with everything below it.
Listable(fs) == {p \in fs : DirsAbove(p) \cap unreadable = {}}

\* The arguments of the two _zip calls, lines 200-205 and 207-213.
TargetOf(component) == IF component = "Frontend" THEN FRONTEND_ZIP ELSE BACKEND_ZIP
RootOf(component) == IF component = "Frontend" THEN WEB_STATIC_DIR ELSE BACKEND_ROOT

\* Lines 119-132 of a _zip call: files_to_zip, the walk over the files on
\* disk now.
FilesToZip(component) ==
    Walk(RootOf(component), Listable(files),
         IF component = "Frontend" THEN FrontendDirsToExclude ELSE BackendDirsToExclude,
         FilesToExclude)

\* Lines 197, 199, 206: whether _zip is called for a component.
ZipWanted(component) == IF component = "Frontend" THEN zip /\ frontend ELSE BackendZipWanted

\* What export does after the _zip call of a component.
AfterZip(component) ==
    IF component = "Frontend" THEN <<"Backend", "walk">> ELSE <<"none", "done">>

\* Lines 119-132 of a _zip call: the whole of files_to_zip is built.
ZipWalk ==
    /\ zpc[2] = "walk"
    /\ LET component == zpc[1]
           files_to_zip == FilesToZip(component)
       IN IF ZipWanted(component)
          THEN /\ zmanifest' = files_to_zip
               /\ zqueue' = files_to_zip
               /\ manifests' = [manifests EXCEPT ![component] = files_to_zip]
               /\ trace' = Append(trace, IF component = "Frontend" THEN "zip_frontend"
                                         ELSE "zip_backend")
               /\ zpc' = <<component, "open">>
               /\ UNCHANGED pc
          ELSE /\ zpc' = AfterZip(component)
               /\ pc' = IF AfterZip(component)[2] = "done" THEN "done" ELSE pc
               /\ UNCHANGED <<zmanifest, zqueue, manifests, trace>>
    /\ UNCHANGED <<backend, frontend, zip, deploy_url, command, files, files0,
                   zipContent, zipWrites, sitemap, spawned, exitCode, raised>>
    /\ UNCHANGED <<unreadable, created>>
    /\ UNCHANGED <<cfgVars, jsonVars, runVars, accVars, setupVars>>

\* Line 144: zipfile.ZipFile(target, "w", ...) creates or empties the archive.
ZipOpen ==
    /\ zpc[2] = "open"
    /\ LET target == TargetOf(zpc[1])
       IN /\ zipContent' = [zipContent EXCEPT ![target] = {}]
          /\ zipWrites' = [zipWrites EXCEPT ![target] = @ + 1]
          /\ files' = files \cup {<<target>>}
    /\ zpc' = <<zpc[1], "write">>
    /\ UNCHANGED <<backend, frontend, zip, deploy_url, pc, command, files0, manifests,
                   sitemap, spawned, exitCode, trace, raised>>
    /\ UNCHANGED <<zmanifest, zqueue, unreadable, created>>
    /\ UNCHANGED <<cfgVars, jsonVars, runVars, accVars, setupVars>>

\* A variant that walks the directory again before each write.
PendingRewalked(component) ==
    {p \in FilesToZip(component) :
        RelPath(p, RootOf(component)) \notin zipContent[TargetOf(component)]}

\* Line 145: the files of files_to_zip the loop has not reached yet.
Pending(component) == zqueue

\* Lines 145-148: one iteration of the loop; zipf.write raises when the file
\* cannot be read, and the exception leaves _zip and export.
ZipWriteFile ==
    /\ zpc[2] = "write"
    /\ \E file \in Pending(zpc[1]) :
          IF file \in files /\ file \notin unreadable
          THEN /\ zipContent' = [zipContent EXCEPT ![TargetOf(zpc[1])] =
                                    @ \cup {RelPath(file, RootOf(zpc[1]))}]
               /\ zqueue' = zqueue \ {file}
               /\ UNCHANGED <<zpc, pc, raised>>
          ELSE /\ raised' = "OSError"
               /\ pc' = "raised"
               /\ zpc' = <<zpc[1], "raised">>
               /\ UNCHANGED <<zipContent, zqueue>>
    /\ UNCHANGED <<backend, frontend, zip, deploy_url, command, files, files0,
                   zipWrites, manifests, sitemap, spawned, exitCode, trace>>
    /\ UNCHANGED <<zmanifest, unreadable, created>>
    /\ UNCHANGED <<cfgVars, jsonVars, runVars, accVars, setupVars>>

\* Line 144: the loop is over, the archive is closed and _zip returns.
ZipReturns ==
    /\ zpc[2] = "write"
    /\ Pending(zpc[1]) = {}
    /\ zpc' = AfterZip(zpc[1])
    /\ pc' = IF AfterZip(zpc[1])[2] = "done" THEN "done" ELSE pc
    /\ UNCHANGED <<backend, frontend, zip, deploy_url, command, files, files0,
                   zipContent, zipWrites, manifests, sitemap, spawned, exitCode, trace,
                   raised>>
    /\ UNCHANGED <<zmanifest, zqueue, unreadable, created>>
    /\ UNCHANGED <<cfgVars, jsonVars, runVars, accVars, setupVars>>

\* Another process creates a file while export is zipping; the file is
\* remembered with the position export was at.
FileCreated ==
    /\ zpc[2] \in {"walk", "open", "write"}
    /\ Cardinality(created) < MaxCreated
    /\ \E p \in ZipFileUniverse \ files :
          /\ files' = files \cup {p}
          /\ created' = created \cup {<<p, zpc>>}
    /\ UNCHANGED <<backend, frontend, zip, deploy_url, pc, command, files0, zipContent,
                   zipWrites, manifests, sitemap, spawned, exitCode, trace, raised>>
    /\ UNCHANGED <<zpc, zmanifest, zqueue, unreadable>>
    /\ UNCHANGED <<cfgVars, jsonVars, runVars, accVars, setupVars>>

\* Line 196: export has cleaned, built, and reached "Zip up the app".
ZipInit ==
    /\ backend \in BOOLEAN
    /\ frontend \in BOOLEAN
    /\ zip \in BOOLEAN
    /\ deploy_url = None
    /\ files \in {S \in SUBSET ZipFileUniverse : Cardinality(S) <= MaxFiles}
    /\ files0 = files
    /\ unreadable \in {U \in SUBSET (files \cup UNION {DirsAbove(p) : p \in files}) :
                          Cardinality(U) <= MaxUnreadable}
    /\ pc = "zip"
    /\ command = "export"
    /\ zipContent = [t \in Targets |-> IF <<t>> \in files THEN StaleEntries ELSE {}]
    /\ zipWrites = [t \in Targets |-> 0]
    /\ manifests = [c \in {"Frontend", "Backend"} |-> NoManifest]
    /\ sitemap = <<>>
    /\ spawned = <<>>
    /\ exitCode = None
    /\ trace = <<>>
    /\ raised = "none"
    /\ zpc = <<"Frontend", "walk">>
    /\ zmanifest = {}
    /\ zqueue = {}
    /\ created = {}
    /\ ConfigParked
    /\ JsonIdle
    /\ RunIdle
    /\ AccIdle
    /\ SetupIdle

ZipNext ==
    \/ ZipWalk
    \/ ZipOpen
    \/ ZipWriteFile
    \/ ZipReturns
    \/ FileCreated

ZipSpec == ZipInit /\ [][ZipNext]_vars

----------------------------------------------------------------------------
(* setup_frontend and setup_frontend_prod (reflex/utils/build.py), one     *)
(* step per call.  get_config steps as in ConfigSpec, export as in         *)
(* ExportSpec, set_env_json writes as in JsonSpec.                         *)

\* A variant that exports before the frontend is set up.
SetupFrontendProdOrderExportFirst ==
    <<"export", "install", "cp", "set_env_json", "telemetry">>

\* Lines 227-251 and 264-265: the calls of setup_frontend in the order of
\* its statements, then export.
SetupFrontendProdOrder == <<"install", "cp", "set_env_json", "telemetry", "export">>

\* The call that follows step; after the last one setup_frontend_prod
\* returns.
SetupFollowing(step) ==
    LET order == SetupFrontendProdOrder
        i == CHOOSE j \in 1 .. Len(order) : order[j] = step
    IN IF i < Len(order) THEN order[i + 1] ELSE "done"

\* prerequisites.install_frontend_packages and path_ops.cp return once
\* their work is done, or raise.
CallOutcomes == {"completed", "raised"}

\* Line 227: prerequisites.install_frontend_packages().
InstallFrontendPackages ==
    /\ spc = "install"
    /\ \E outcome \in CallOutcomes :
          /\ strace' = Append(strace, <<"install", outcome>>)
          /\ spc' = IF outcome = "raised" THEN "raised" ELSE SetupFollowing("install")
    /\ UNCHANGED disable_telemetry
    /\ UNCHANGED <<cfgVars, expVars, jsonVars, runVars, accVars, zipVars>>

\* path_ops.cp(src, dest) of a directory: dest is removed and the tree
\* below src is copied to it.
Cp(src, dest, fs) ==
    {p \in fs : ~Under(dest, p)}
    \cup {dest \o RelPath(p, src) : p \in {q \in fs : Under(src, q)}}

\* Lines 230-233: path_ops.cp(root / APP_ASSETS_DIR, root / WEB_ASSETS_DIR).
\* A source with files below it is there and is copied; one with none may
\* be an empty directory or missing, and a missing source raises before
\* anything is written.
CpAssets ==
    /\ spc = "cp"
    /\ LET src == << <<"assets">> >>
           dest == << <<".", "web">>, <<"public">> >>
       IN \E outcome \in CallOutcomes :
             /\ outcome = "raised" => ~\E p \in files : Under(src, p)
             /\ files' = IF outcome = "raised" THEN files ELSE Cp(src, dest, files)
             /\ strace' = Append(strace, <<"cp", outcome>>)
             /\ spc' = IF outcome = "raised" THEN "raised" ELSE SetupFollowing("cp")
    /\ UNCHANGED disable_telemetry
    /\ UNCHANGED <<backend, frontend, zip, deploy_url, pc, command, files0, zipContent,
                   zipWrites, manifests, sitemap, spawned, exitCode, trace, raised>>
    /\ UNCHANGED <<cfgVars, jsonVars, runVars, accVars, zipVars>>

\* Line 236: set_env_json().
SetEnvJsonInSetup ==
    /\ spc = "set_env_json"
    /\ UpdateJsonFile(ENV_JSON, EnvJsonDict)
    /\ strace' = Append(strace, <<"set_env_json", "completed">>)
    /\ spc' = SetupFollowing("set_env_json")
    /\ UNCHANGED disable_telemetry

\* Lines 239-251: if disable_telemetry: processes.new_process([...,
\* "run", "next", "telemetry", "disable"], ...); the process is not waited
\* for.
DisableTelemetry ==
    /\ spc = "telemetry"
    /\ IF disable_telemetry
       THEN /\ spawned' = Append(spawned, "next telemetry disable")
            /\ strace' = Append(strace, <<"telemetry", "completed">>)
       ELSE UNCHANGED <<spawned, strace>>
    /\ spc' = SetupFollowing("telemetry")
    /\ UNCHANGED disable_telemetry
    /\ UNCHANGED <<backend, frontend, zip, deploy_url, pc, command, files, files0,
                   zipContent, zipWrites, manifests, sitemap, exitCode, trace, raised>>
    /\ UNCHANGED <<cfgVars, jsonVars, runVars, accVars, zipVars>>

\* Line 265: export(deploy_url=get_config().deploy_url), once get_config
\* has returned.  backend, frontend and zip take their defaults (lines
\* 152-154); deploy_url is not among the fields the configuration model
\* varies and has any of its values.
CallExport ==
    /\ spc = "export"
    /\ pc = "not_called"
    /\ cpc = "returned"
    /\ backend' = TRUE
    /\ frontend' = TRUE
    /\ zip' = FALSE
    /\ deploy_url' \in DeployUrls
    /\ files0' = files
    /\ pc' = "idle"
    /\ strace' = Append(strace, <<"export", "called">>)
    /\ UNCHANGED <<spc, disable_telemetry>>
    /\ UNCHANGED <<command, files, zipContent, zipWrites, manifests, sitemap, spawned,
                   exitCode, trace, raised>>
    /\ UNCHANGED <<cfgVars, jsonVars, runVars, accVars, zipVars>>

\* Line 265: export returns, or its exception or that of get_config leaves
\* setup_frontend_prod.
ExportLeaves ==
    /\ spc = "export"
    /\ pc \in {"done", "raised"} \/ (pc = "not_called" /\ cpc = "raised")
    /\ strace' = Append(strace, <<"export", IF pc = "done" THEN "completed" ELSE "raised">>)
    /\ spc' = IF pc = "done" THEN SetupFollowing("export") ELSE "raised"
    /\ UNCHANGED disable_telemetry
    /\ UNCHANGED <<cfgVars, expVars, jsonVars, runVars, accVars, zipVars>>

SetupInit ==
    /\ disable_telemetry \in BOOLEAN
    /\ spc = SetupFrontendProdOrder[1]
    /\ strace = <<>>
    /\ importable \in BOOLEAN
    /\ reload = FALSE
    /\ kwargs \in {KwargsOver({"app_name"}), NoKwargs}
    /\ (kwargs = NoKwargs) = ~importable
    /\ environ \in {e \in AllEnvirons : DOMAIN e \subseteq {"FRONTEND_PORT"}}
    /\ cpc = "not_called"
    /\ args = NoKwargs
    /\ self = NoKwargs
    /\ idx = 1
    /\ console = <<>>
    /\ mark = 0
    /\ overridden = {}
    /\ error = "none"
    /\ pass = 0
    /\ backend = FALSE
    /\ frontend = FALSE
    /\ zip = FALSE
    /\ deploy_url = None
    /\ pc = "not_called"
    /\ command = "export"
    /\ files \in SUBSET {p \in FileUniverse : p[1] \in {<<"assets">>, <<".", "web">>}}
    /\ files0 = files
    /\ zipContent = [t \in Targets |-> {}]
    /\ zipWrites = [t \in Targets |-> 0]
    /\ manifests = [c \in {"Frontend", "Backend"} |-> NoManifest]
    /\ sitemap = <<>>
    /\ spawned = <<>>
    /\ exitCode = None
    /\ trace = <<>>
    /\ raised = "none"
    /\ json0 \in {j \in [JsonPaths -> JsonFiles0] : j[REFLEX_JSON][1] = "missing"}
    /\ jsonExists = {p \in JsonPaths : json0[p][1] # "missing"}
    /\ jsonText = [p \in JsonPaths |->
                      IF json0[p][1] = "object" THEN JsonDump(json0[p][2]) ELSE <<>>]
    /\ jsonCalls = <<>>
    /\ RunIdle
    /\ AccIdle
    /\ ZipIdle

SetupNext ==
    \/ InstallFrontendPackages
    \/ CpAssets
    \/ SetEnvJsonInSetup
    \/ DisableTelemetry
    \/ CallGetConfig
    \/ GetConfig
    \/ BaseInit
    \/ CheckDeprecatedValues
    \/ UpdateFromEnvStep
    \/ ConfigReturns
    \/ CallExport
    \/ RmStatic
    \/ GenerateSitemap
    \/ NewProcess
    \/ ShowProgress
    \/ ZipFrontend
    \/ ZipBackend
    \/ ExportLeaves

SetupSpec == SetupInit /\ [][SetupNext]_vars

----------------------------------------------------------------------------
(* Properties of configuration resolution.                                 *)

\* The environment sets the variable of field f.
EnvPresent(f) == Upper(f) \in DOMAIN environ

EnvRaw(f) == environ[Upper(f)]

\* The strings that denote a value of a declared type.
LiteralsOf(type) ==
    CASE type = "int" -> {"7"}
      [] type = "LogLevel" -> {"debug", "info", "error"}
      [] OTHER -> EnvStrings

\* The environment holds, for f, a string that is no value of f's type.
BadEnv(f) == EnvPresent(f) /\ EnvRaw(f) \notin LiteralsOf(FieldType[f])

\* The notices and error reports of the Config(...) call in progress.
CallLog == SubSeq(console, mark + 1, Len(console))

NoticeCount(f) ==
    Cardinality({i \in 1..Len(CallLog) : CallLog[i].level = "info" /\ CallLog[i].key = f})

Noticed == {f \in Fields : NoticeCount(f) > 0}

Terminal == cpc \in {"returned", "raised"}

\* C1: in the Config that construction produces, every field whose
\* environment variable is present and coercible holds the coerced
\* environment value, whatever its default and whatever override was passed.
C1_EnvWinsLast ==
    cpc = "returned" =>
        \A f \in Fields :
            (EnvPresent(f) /\ Coercible(FieldType[f], EnvRaw(f)))
                => self[f] = Coerce(FieldType[f], EnvRaw(f))

C1_Witness ==
    /\ cpc = "returned"
    /\ \E f \in Fields :
          /\ EnvPresent(f)
          /\ f \in DOMAIN args
          /\ args[f] # Coerce(FieldType[f], EnvRaw(f))
          /\ self[f] = Coerce(FieldType[f], EnvRaw(f))
    /\ \E g \in Fields \ {"app_name"} :
          /\ EnvPresent(g)
          /\ g \notin DOMAIN args
          /\ self[g] # Defaults[g]

DeprecationErrors == {"deprecated:db_config", "deprecated:admin_dash", "deprecated:env_path"}

DeprecationErrorOf(k) ==
    CASE k = "db_config" -> "deprecated:db_config"
      [] k = "admin_dash" -> "deprecated:admin_dash"
      [] k = "env_path" -> "deprecated:env_path"

HasDeprecatedKey == cpc # "get_config" /\ DOMAIN args \cap DeprecatedKeys # {}

\* C2 as stated: a deprecated key among the overrides makes construction
\* fail with a deprecation error for every combination of the other
\* overrides and of the environment; no Config is returned and the
\* environment step is never applied.
C2_Original ==
    HasDeprecatedKey =>
        /\ cpc \notin {"update_from_env", "returned"}
        /\ overridden = {}
        /\ (cpc = "raised" => error \in DeprecationErrors)

\* C2 amended: a deprecated key among the overrides makes construction fail,
\* no Config is returned and the environment step (with its notices) is never
\* applied; the failure is the deprecation error of a deprecated key that was
\* passed whenever the overrides pass base validation (app_name is supplied),
\* and the base validation error otherwise, because validation runs first.
C2_DeprecatedFails ==
    HasDeprecatedKey =>
        /\ cpc \notin {"update_from_env", "returned"}
        /\ overridden = {}
        /\ CallLog = <<>>
        /\ (cpc = "raised" =>
              IF "app_name" \in DOMAIN args
              THEN error \in {DeprecationErrorOf(k) : k \in DOMAIN args \cap DeprecatedKeys}
              ELSE error = "field_required:app_name")

C2_Witness ==
    /\ cpc = "raised"
    /\ error = "deprecated:env_path"
    /\ Cardinality(DOMAIN args) = 3
    /\ \E f \in Fields : EnvPresent(f)

\* The first field, in the order of the loop, whose variable cannot be coerced.
FirstBad == FieldOrder[CHOOSE i \in 1..Len(FieldOrder) :
                           /\ BadEnv(FieldOrder[i])
                           /\ \A j \in 1..(i - 1) : ~BadEnv(FieldOrder[j])]

C4_Original ==
    Terminal =>
        /\ Noticed = overridden \ {"db_url"}
        /\ \A f \in Noticed : NoticeCount(f) = 1

\* C4 amended: every field whose override was applied, db_url excepted, has
\* exactly one notice; db_url never has one; the only other notice there can
\* be is that of the field whose coercion failed, because the notice is
\* emitted before the conversion is tried; when construction returns, the
\* noticed fields are exactly the applied ones minus db_url.
C4_Notices ==
    /\ overridden \ {"db_url"} \subseteq Noticed
    /\ \A f \in Noticed : NoticeCount(f) = 1
    /\ "db_url" \notin Noticed
    /\ \A f \in Noticed \ overridden :
          /\ cpc = "raised"
          /\ error = "coercion"
          /\ console[Len(console)] = Err(f, EnvRaw(f))
    /\ (cpc = "returned" => Noticed = overridden \ {"db_url"})

C4_Witness ==
    /\ cpc = "returned"
    /\ "db_url" \in overridden
    /\ Cardinality(overridden) >= 2
    /\ Noticed # {}

\* C5 as stated: when the configuration module cannot be imported,
\* get_config returns, without raising, a configuration whose app_name is
\* empty, for every state of the environment.
C5_Original ==
    ~importable =>
        /\ cpc # "raised"
        /\ (cpc = "returned" => self["app_name"] = "")

\* C5 amended: when the configuration module cannot be imported, get_config
\* builds Config(app_name="") and applies the environment to it: it raises
\* only the coercion error of a variable that cannot be coerced, and otherwise
\* returns a configuration whose app_name is the value of APP_NAME when that
\* variable is set and empty when it is not; reload changes nothing.
C5_FallbackConfig ==
    ~importable =>
        /\ pass <= 1
        /\ (cpc = "raised" => error = "coercion" /\ \E f \in Fields : BadEnv(f))
        /\ (cpc = "returned" =>
              self["app_name"] = IF EnvPresent("app_name") THEN EnvRaw("app_name") ELSE "")

C5_Witness ==
    /\ ~importable
    /\ reload
    /\ cpc = "returned"
    /\ ~EnvPresent("app_name")
    /\ self["app_name"] = ""
    /\ overridden # {}

----------------------------------------------------------------------------
(* Properties of export.                                                   *)

\* The steps of an export run, in the order of the state machine.
StepOrder == <<"rm", "sitemap", "spawn", "build", "zip_frontend", "zip_backend">>

Rank(e) == CHOOSE i \in 1..Len(StepOrder) : StepOrder[i] = e

Has(e) == \E i \in 1..Len(trace) : trace[i] = e

\* The steps taken follow the order of the state machine, each at most once.
InOrder == \A i, j \in 1..Len(trace) : i < j => Rank(trace[i]) < Rank(trace[j])

\* The static-output directory was removed first, and holds nothing of what
\* was there before.
CleanedFirst ==
    pc # "idle" =>
        /\ trace # <<>>
        /\ trace[1] = "rm"
        /\ \A p \in files : Under(WEB_STATIC_DIR, p) => p \in BuildOutputs

\* A zip step comes only after a build that has finished successfully, when
\* there is a build at all.
ZipAfterBuild ==
    (Has("zip_frontend") \/ Has("zip_backend")) =>
        (Has("spawn") => (Has("build") /\ exitCode = 0))

\* C6 as stated: every run follows Idle -> CleaningStaticOutput ->
\* [SitemapGeneration] -> FrontendBuild -> [ZipFrontend] -> [ZipBackend] ->
\* Done, and FrontendBuild occurs in every run that reaches Done.
C6_Original ==
    /\ InOrder
    /\ CleanedFirst
    /\ ZipAfterBuild
    /\ (pc = "done" => Has("spawn") /\ Has("build"))

\* C6 amended: every run follows that order, the static-output directory is
\* removed exactly once and first, the sitemap precedes the build, a zip step
\* comes only after the build has finished and the frontend archive precedes
\* the backend archive; the build occurs in a run that reaches Done exactly
\* when frontend export was requested.
C6_ExportOrder ==
    /\ InOrder
    /\ CleanedFirst
    /\ ZipAfterBuild
    /\ (Has("zip_frontend") => Has("build"))
    /\ (pc = "done" => ((Has("spawn") /\ Has("build")) <=> frontend))
    /\ (Has("spawn") => frontend)

C6_Witness ==
    /\ pc = "done"
    /\ trace = StepOrder
    /\ \E p \in files0 : Under(WEB_STATIC_DIR, p)

\* C7: when the build subprocess exits with a non-zero status, export fails
\* with the build error: the subprocess was spawned exactly once, export does
\* not reach Done, and no zip step runs.
C7_BuildFailureIsFatal ==
    (Has("build") /\ exitCode # 0) =>
        /\ pc = "raised"
        /\ raised = "BuildError"
        /\ Len(spawned) = 1
        /\ ~Has("zip_frontend")
        /\ ~Has("zip_backend")
        /\ \A t \in Targets : zipWrites[t] = 0

C7_Witness ==
    /\ pc = "raised"
    /\ exitCode = 1
    /\ zip
    /\ frontend
    /\ backend

InitialEntries(t) == IF <<t>> \in files0 THEN StaleEntries ELSE {}

\* C9: in a completed export the frontend archive is written iff zip and
\* frontend are requested and the backend archive iff zip and backend are;
\* the two are distinct files; an archive whose component was not requested,
\* or any archive when zip is false, is neither created nor changed.
C9_ArchivesAsRequested ==
    /\ FRONTEND_ZIP # BACKEND_ZIP
    /\ \A t \in Targets : zipWrites[t] <= 1
    /\ (zipWrites[FRONTEND_ZIP] = 1 => zip /\ frontend)
    /\ (zipWrites[BACKEND_ZIP] = 1 => zip /\ backend)
    /\ (pc = "done" =>
          /\ (zipWrites[FRONTEND_ZIP] = 1 <=> (zip /\ frontend))
          /\ (zipWrites[BACKEND_ZIP] = 1 <=> (zip /\ backend)))
    /\ \A t \in Targets :
          zipWrites[t] = 0 =>
              /\ zipContent[t] = InitialEntries(t)
              /\ (<<t>> \in files <=> <<t>> \in files0)
    /\ (zipWrites[FRONTEND_ZIP] = 1 =>
          zipContent[FRONTEND_ZIP] = ZipEntries(manifests["Frontend"], WEB_STATIC_DIR))

C9_Witness ==
    /\ pc = "done"
    /\ zip
    /\ backend
    /\ ~frontend
    /\ <<FRONTEND_ZIP>> \in files0
    /\ zipContent[FRONTEND_ZIP] = StaleEntries
    /\ zipWrites[FRONTEND_ZIP] = 0
    /\ zipWrites[BACKEND_ZIP] = 1
    /\ zipContent[BACKEND_ZIP] # {}

\* A file below root none of whose directories below root is hidden or
\* excluded, and whose name is neither hidden nor excluded.
Included(p, root, dirs_excluded, files_excluded) ==
    /\ Len(p) > Len(root)
    /\ SubSeq(p, 1, Len(root)) = root
    /\ \A i \in (Len(root) + 1)..(Len(p) - 1) :
          p[i][1] # "." /\ p[i] \notin dirs_excluded
    /\ p[Len(p)][1] # "."
    /\ p[Len(p)] \notin files_excluded

Expected(root, dirs_excluded) ==
    {p \in files : Included(p, root, dirs_excluded, {FRONTEND_ZIP, BACKEND_ZIP})}

\* The tree of the example: .hidden/, node_modules/, a.txt and .secret.
ExampleTree ==
    { << <<"a", ".", "txt">> >>,
      << <<".", "secret">> >>,
      << <<".", "hidden">>, <<"x", ".", "txt">> >>,
      << <<"node_modules">>, <<"pkg", ".", "js">> >> }

WalkRoots == {<<>>, WEB_STATIC_DIR, << <<"app">> >>}

WalkDirExclusions == {{}, {<<"assets">>, <<"__pycache__">>}, {<<"node_modules">>}}

\* C10: the manifest of the archive walk holds exactly the files below the
\* root none of whose directories below the root is hidden or excluded, and
\* whose name is neither hidden nor one of the two archive names; the tree
\* .hidden/, node_modules/ (excluded), a.txt, .secret yields only a.txt.
C10_ManifestIsTheIncludedFiles ==
    /\ (manifests["Frontend"] # NoManifest =>
          manifests["Frontend"] = Expected(WEB_STATIC_DIR, {}))
    /\ (manifests["Backend"] # NoManifest =>
          manifests["Backend"] = Expected(<<>>, {<<"assets">>, <<"__pycache__">>}))
    /\ \A root \in WalkRoots, dex \in WalkDirExclusions :
          Walk(root, files, dex, FilesToExclude) = Expected(root, dex)
    /\ (files = ExampleTree =>
          Walk(<<>>, files, {<<"node_modules">>}, FilesToExclude) = {<< <<"a", ".", "txt">> >>})

C10_Witness ==
    /\ pc = "done"
    /\ files0 = ExampleTree
    /\ manifests["Backend"] = {<< <<"a", ".", "txt">> >>, << <<"node_modules">>, <<"pkg", ".", "js">> >>}
    /\ manifests["Frontend"] # NoManifest
    /\ manifests["Frontend"] # {}
    /\ Walk(<<>>, files0, {<<"node_modules">>}, FilesToExclude) = {<< <<"a", ".", "txt">> >>}

----------------------------------------------------------------------------
(* Properties of update_json_file.                                         *)

\* The object a file held before the first call: empty for a missing file
\* and for a file of zero bytes.
InitialObject(p) == IF json0[p][1] = "object" THEN json0[p][2] ELSE <<>>

\* The update_dict arguments of the calls made on p, in call order.
RECURSIVE DictsFor(_, _)
DictsFor(p, calls) ==
    IF Len(calls) = 0 THEN <<>>
    ELSE (IF Head(calls)[1] = p THEN <<Head(calls)[2]>> ELSE <<>>) \o DictsFor(p, Tail(calls))

CallsOn(p) == DictsFor(p, jsonCalls)

\* The calls on p that name key k.
Writers(p, k) == {i \in 1 .. Len(CallsOn(p)) : k \in DictKeys(CallsOn(p)[i])}

MaxOf(S) == CHOOSE i \in S : \A j \in S : j <= i

\* The initial object updated in call order, as a set of <<key, value>>.
UpdatedInCallOrder(p) ==
    { <<k, DictGet(CallsOn(p)[MaxOf(Writers(p, k))], k)>> :
        k \in UNION {DictKeys(CallsOn(p)[i]) : i \in 1 .. Len(CallsOn(p))} }
    \cup
    { <<k, DictGet(InitialObject(p), k)>> :
        k \in {k \in DictKeys(InitialObject(p)) : Writers(p, k) = {}} }

\* The text is one object: braces around members with distinct keys.
OneObject(text) ==
    /\ Len(text) >= 2
    /\ text[1] = LBrace
    /\ text[Len(text)] = RBrace
    /\ \A i \in 2 .. Len(text) - 1 : text[i][1] = "member"
    /\ \A i, j \in 2 .. Len(text) - 1 : text[i][2] = text[j][2] => i = j

\* The members of the object in the text, as a set of <<key, value>>.
Members(text) == {<<text[i][2], JsonValue(text[i])>> : i \in 2 .. Len(text) - 1}

AllFourKeys == DictKeys(EnvJsonDict) \cup {"project_hash"}

\* C11: after any sequence of update_json_file calls on a path, the file
\* exists and holds exactly one JSON object, equal to the object it held
\* before (empty if the file was missing or of zero bytes) updated with the
\* calls' dicts in call order; a file no call was made on is as it was.
C11_MergedInCallOrder ==
    \A p \in JsonPaths :
        IF Len(CallsOn(p)) = 0
        THEN /\ (p \in jsonExists) = (json0[p][1] # "missing")
             /\ jsonText[p] = IF json0[p][1] = "object" THEN JsonDump(json0[p][2]) ELSE <<>>
        ELSE /\ p \in jsonExists
             /\ OneObject(jsonText[p])
             /\ Members(jsonText[p]) = UpdatedInCallOrder(p)

\* The three URL keys and then project_hash were written to a file that did
\* not exist, and the file holds all four keys.
C11_Witness ==
    \E p \in JsonPaths, h \in ProjectHashes :
        /\ json0[p][1] = "missing"
        /\ jsonCalls = << <<p, EnvJsonDict>>, <<p, ProjectHashDict(h)>> >>
        /\ {m[1] : m \in Members(jsonText[p])} = AllFourKeys

----------------------------------------------------------------------------
(* Properties of the run functions.                                        *)

\* The lines written so far that contain the marker, in order.
RECURSIVE MarkerLinesOf(_)
MarkerLinesOf(lines) ==
    IF Len(lines) = 0 THEN <<>>
    ELSE (IF Contains(Head(lines), READY_MARKER) THEN <<Head(lines)>> ELSE <<>>)
         \o MarkerLinesOf(Tail(lines))

MarkerLines == MarkerLinesOf(outLines)

\* The positions of the pieces of a line that are not whitespace.
Solid(line) == {i \in 1 .. Len(line) : line[i] \notin Whitespace}

\* The last whitespace-separated token of a line.
TrailingToken(line) == line[MaxOf(Solid(line))]

MinOf(S) == CHOOSE i \in S : \A j \in S : i <= j

\* The position of the last separator of a line, 0 when it has none.
LastSeparator(line) ==
    MaxOf({0} \cup {i \in 1 .. Len(line) : line[i] = URL_SEPARATOR})

\* What stands after the last separator, from its first to its last piece
\* that is not whitespace.
AfterLastSeparator(line) ==
    LET rest == {i \in Solid(line) : i > LastSeparator(line)}
    IN IF rest = {} THEN <<>> ELSE SubSeq(line, MinOf(rest), MaxOf(rest))

\* C12 as stated: one report per line containing the marker, carrying the
\* trailing URL token of the line.
C12_Original ==
    /\ Len(reports) = Len(MarkerLines)
    /\ \A k \in 1 .. Len(reports) : reports[k] = <<TrailingToken(MarkerLines[k])>>

\* C12: for every line containing the marker exactly one report is printed,
\* in the order of the lines, and no report for any other line; the report
\* carries the text after the last "url: " of the line without surrounding
\* whitespace, which is the trailing URL token when one token follows that
\* separator, and the whole stripped line when the line has no "url: ".
C12_ReadyReports ==
    /\ Len(reports) = Len(MarkerLines)
    /\ \A k \in 1 .. Len(reports) :
          LET line == MarkerLines[k]
          IN /\ reports[k] = AfterLastSeparator(line)
             /\ (Contains(line, URL_SEPARATOR) /\ Len(reports[k]) = 1
                   => reports[k] = <<TrailingToken(line)>>)
             /\ (~Contains(line, URL_SEPARATOR)
                   => reports[k] = SubSeq(line, MinOf(Solid(line)), MaxOf(Solid(line))))

\* A line with the separator was reported by its URL, and the line
\* 'ready started server on http://localhost:3000' was reported whole.
C12_Witness ==
    /\ Len(outLines) = 2
    /\ Contains(outLines[1], URL_SEPARATOR)
    /\ Contains(outLines[1], "0.0.0.0:3000,")
    /\ outLines[2] = <<READY_MARKER, " ", "http://localhost:3000">>
    /\ reports = << <<"http://localhost:3000">>, outLines[2] >>

\* step a occurs in the trace, and before every occurrence of step b.
Precedes(a, b) ==
    \E i \in 1 .. Len(rtrace) :
        /\ rtrace[i] = a
        /\ \A j \in 1 .. Len(rtrace) : rtrace[j] = b => i < j

\* C13: a development frontend process is started with the asset watch
\* already running; a frontend process (development or production) is
\* started after PORT was set and with PORT in its environment; the
\* production backend process is given the skip-compile flag in the env of
\* its start; and after the start neither os.environ nor the asset watch
\* changes any more.
C13_SetBeforeSpawn ==
    \A i \in 1 .. Len(procs) :
        LET kind == procs[i][1]
            osenv == procs[i][3]
            env == procs[i][4]
            watching == procs[i][5]
        IN /\ kind = "run_frontend" => watching = 1 /\ Precedes("watch", "spawn")
           /\ kind \in Frontends => "PORT" \in DOMAIN osenv /\ Precedes("port", "spawn")
           /\ kind = "run_backend_prod" =>
                "SKIP_COMPILE_ENV_VAR" \in DOMAIN env /\ env["SKIP_COMPILE_ENV_VAR"] = "yes"
           /\ environ = osenv
           /\ watches = watching

\* The development frontend has been started, with a PORT that was not in
\* the environment before, and has written a line.
C13_Witness ==
    /\ run_fn = "run_frontend"
    /\ "PORT" \notin DOMAIN environ0
    /\ Len(procs) = 1
    /\ Len(outLines) > 0
    /\ rtrace = <<"watch", "validate", "port", "spawn">>

\* C14 as stated: when the validation of the frontend dependencies fails no
\* process was started, no asset watch was started and PORT is as it was.
C14_Original ==
    rraised = "dependency" =>
        /\ procs = <<>>
        /\ watches = 0
        /\ environ = environ0

\* C14: when the validation of the frontend dependencies fails the error
\* leaves the function before any process is started; in run_frontend the
\* asset watch has then been started and os.environ is untouched, in
\* run_frontend_prod PORT has then been set and no asset watch was started.
C14_DependencyError ==
    rraised = "dependency" =>
        /\ rpc = "raised"
        /\ procs = <<>>
        /\ outLines = <<>>
        /\ run_fn = "run_frontend" => watches = 1 /\ environ = environ0
        /\ run_fn = "run_frontend_prod" =>
              /\ watches = 0
              /\ "PORT" \in DOMAIN environ
              /\ "port" \in {rtrace[i] : i \in 1 .. Len(rtrace)}
              /\ run_port # None => environ["PORT"] = run_port

\* The validation failed in run_frontend_prod after PORT, which was not in
\* the environment, had been set.
C14_Witness ==
    /\ rraised = "dependency"
    /\ run_fn = "run_frontend_prod"
    /\ "PORT" \notin DOMAIN environ0
    /\ "PORT" \in DOMAIN environ

\* C15: whenever run_backend or run_backend_prod has built the application
\* module reference, the app_name it was built from is not empty.
C15_AppNameNonEmpty ==
    Len(app_module) > 0 => app_module[1] # ""

\* The frontend port the configuration resolves to: the environment's, else
\* the one rxconfig.py passes, else the default.
ConfiguredFrontendPort ==
    IF "FRONTEND_PORT" \in DOMAIN environ0
    THEN ToString(IntLiteral[environ0["FRONTEND_PORT"]])
    ELSE IF importable /\ "frontend_port" \in DOMAIN kwargs
         THEN ToString(kwargs["frontend_port"])
         ELSE ToString(Defaults["frontend_port"])

\* C18: the PORT a frontend process is started with is the caller's port
\* when the caller supplied one, and the configured frontend port when the
\* caller supplied none.
C18_PortValue ==
    /\ \A i \in 1 .. Len(procs) :
          procs[i][1] \in Frontends =>
             procs[i][3]["PORT"] = IF run_port # None THEN run_port ELSE ConfiguredFrontendPort
    /\ (run_fn \in Frontends /\ "port" \in {rtrace[i] : i \in 1 .. Len(rtrace)}) =>
          environ["PORT"] = IF run_port # None THEN run_port ELSE ConfiguredFrontendPort

\* A frontend was started with the caller's port although the configuration
\* names another one and PORT was already set to a third.
C18_Witness ==
    /\ run_fn \in Frontends
    /\ run_port = "4000"
    /\ importable /\ "frontend_port" \in DOMAIN kwargs
    /\ "PORT" \in DOMAIN environ0
    /\ Len(procs) = 1
    /\ procs[1][3]["PORT"] = "4000"

----------------------------------------------------------------------------
(* Properties of the two accessors.                                        *)

Calling(name) == accessor = name /\ accDone

\* The fields of the DBConfig get_url is called on.
DbEngine == accSelf[1]
DbUsername == accSelf[2]
DbPassword == accSelf[3]
DbHost == accSelf[4]
DbPort == accSelf[5]
DbDatabase == accSelf[6]

\* A field is present when it is neither None nor empty (nor the port 0).
HasUsername == DbUsername # <<>>
HasPassword == DbPassword # <<>>
HasHost == DbHost # <<>>
HasPort == DbPort # <<>> /\ DbPort # <<0>>

\* The credentials of the claim: user:password or user, percent-encoded.
Credentials ==
    IF ~HasUsername THEN <<>>
    ELSE IF HasPassword THEN QuotePlus(DbUsername) \o <<":">> \o QuotePlus(DbPassword)
    ELSE QuotePlus(DbUsername)

\* The positions of piece c in the returned string.
PositionsOf(c) == {i \in 1 .. Len(accResult) : accResult[i] = c}

\* C16: get_url renders engine://[credentials@][host]/database: the host
\* segment is host:port only when host and port are both present, host alone
\* otherwise and empty without a host; the credentials are user:password or
\* user; without a username the credentials and the '@' are left out even if
\* a password is given; sqlite with database reflex.db gives
\* sqlite:///reflex.db.
C16_UrlShape ==
    Calling("get_url") =>
        LET n == Len(accResult)
            start == Len(DbEngine) + 1
            at == PositionsOf("@")
            middle == SubSeq(accResult, start + 1, n - 1 - Len(DbDatabase))
            hostSegment == IF at = {} THEN middle
                           ELSE SubSeq(middle, MaxOf(at) - start + 1, Len(middle))
        IN /\ SubSeq(accResult, 1, start) = DbEngine \o <<"://">>
           /\ SubSeq(accResult, n - Len(DbDatabase), n) = <<"/">> \o DbDatabase
           /\ (at # {}) = HasUsername
           /\ Cardinality(at) <= 1
           /\ at # {} => SubSeq(middle, 1, MaxOf(at) - start - 1) = Credentials
           /\ (HasHost /\ HasPort) => hostSegment = DbHost \o <<":", ToString(DbPort[1])>>
           /\ (HasHost /\ ~HasPort) => hostSegment = DbHost
           /\ ~HasHost => hostSegment = <<>>
           /\ (DbEngine = <<"sqlite">> /\ DbDatabase = <<"reflex.db">> /\ ~HasUsername
                 /\ ~HasHost) => accResult = <<"sqlite", "://", "/", "reflex.db">>

\* get_url was called with a password, a host and a port but no username,
\* and returned engine://host:port/database.
C16_Witness ==
    /\ Calling("get_url")
    /\ ~HasUsername /\ HasPassword /\ HasHost /\ HasPort
    /\ accResult = DbEngine \o <<"://", "h", ":", "5432", "/">> \o DbDatabase

\* The namespace get_event_namespace is called with.
ConfiguredNamespace == accSelf[1]

OnlySlashes(str) == \A i \in 1 .. Len(str) : str[i] = "/"

\* C17 as stated: for every non-empty configured namespace the returned
\* value starts with exactly one '/' and does not end with '/'.
C17_Original ==
    (Calling("get_event_namespace") /\ ConfiguredNamespace # <<>>) =>
        /\ accResult[1] = "/"
        /\ Len(accResult) > 1 => accResult[2] # "/"
        /\ accResult[Len(accResult)] # "/"

\* C17: for every non-empty configured namespace the returned value starts
\* with exactly one '/', followed by the namespace without its leading and
\* trailing slashes; it does not end with '/' unless the namespace consists
\* of slashes only, and then it is exactly "/".  With no namespace
\* configured the path of the event endpoint URL is returned.
C17_Namespace ==
    Calling("get_event_namespace") =>
        IF ConfiguredNamespace # <<>>
        THEN /\ accResult[1] = "/"
             /\ Len(accResult) > 1 => accResult[2] # "/"
             /\ IF OnlySlashes(ConfiguredNamespace)
                THEN accResult = <<"/">>
                ELSE /\ accResult[Len(accResult)] # "/"
                     /\ \E i, j \in 1 .. Len(ConfiguredNamespace) :
                           /\ OnlySlashes(SubSeq(ConfiguredNamespace, 1, i - 1))
                           /\ OnlySlashes(SubSeq(ConfiguredNamespace, j + 1,
                                                 Len(ConfiguredNamespace)))
                           /\ Tail(accResult) = SubSeq(ConfiguredNamespace, i, j)
        ELSE \/ accSelf[2] = <<"ws", "://", "localhost:8000", "/", "_event">>
                /\ accResult = <<"/", "_event">>
             \/ accSelf[2] = <<"wss", "://", "h", "/", "api", "/", "_event", "?", "x=1">>
                /\ accResult = <<"/", "api", "/", "_event">>
             \/ accSelf[2] = <<"ws", "://", "h">>
                /\ accResult = <<>>

\* A namespace with slashes on both sides was normalised.
C17_Witness ==
    /\ Calling("get_event_namespace")
    /\ ConfiguredNamespace = <<"/", "a", "/">>
    /\ accResult = <<"/", "a">>

----------------------------------------------------------------------------
(* Properties of _zip taken file by file.                                  *)

Components == {"Frontend", "Backend"}

\* The _zip call of a component has been made and has gone as far as
\* opening the archive, or further.
Opened(c) == zipWrites[TargetOf(c)] > 0

\* The _zip call of a component has returned.
Returned(c) ==
    /\ manifests[c] # NoManifest
    /\ zpc[2] # "raised"
    /\ zpc[1] # c

\* The files that appeared under the root of a component after the walk of
\* its _zip call and before the call was over.
CreatedWhilePackaging(c) ==
    {e[1] : e \in {e \in created : e[2][1] = c /\ e[2][2] \in {"open", "write"}}}

\* C19: the manifest of a _zip call is complete before the archive is
\* opened and stays as it is; what the archive holds is always part of the
\* manifest, so a file created while packaging is not added; and when _zip
\* has returned the archive holds exactly one entry per file of the
\* manifest, under its path relative to the root.
C19_ManifestFixedBeforeOpen ==
    \A c \in Components :
        /\ (zpc = <<c, "open">>) =>
              /\ zipWrites[TargetOf(c)] = 0
              /\ manifests[c] = zmanifest
              /\ zqueue = zmanifest
        /\ (zpc[1] = c /\ zpc[2] \in {"write", "raised"}) =>
              /\ zipWrites[TargetOf(c)] = 1
              /\ manifests[c] = zmanifest
              /\ zipContent[TargetOf(c)] =
                    {RelPath(p, RootOf(c)) : p \in zmanifest \ zqueue}
        /\ \A p \in CreatedWhilePackaging(c) :
              /\ p \notin manifests[c]
              /\ Under(RootOf(c), p) => RelPath(p, RootOf(c)) \notin zipContent[TargetOf(c)]
        /\ Returned(c) =>
              /\ zipContent[TargetOf(c)] = {RelPath(p, RootOf(c)) : p \in manifests[c]}
              /\ Cardinality(zipContent[TargetOf(c)]) = Cardinality(manifests[c])

\* The frontend _zip call returned with an archive of its manifest although
\* a file that the walk would have taken appeared under the root meanwhile.
C19_Witness ==
    /\ Returned("Frontend")
    /\ manifests["Frontend"] # {}
    /\ \E p \in CreatedWhilePackaging("Frontend") :
          /\ Under(WEB_STATIC_DIR, p)
          /\ KeepFile(Basename(p), FilesToExclude)
          /\ RelPath(p, WEB_STATIC_DIR) \notin zipContent[FRONTEND_ZIP]

\* Something under the root of the frontend archive cannot be read: a file
\* the archive should hold, or a directory with such a file below it.
FrontendUnreadable ==
    \E u \in unreadable :
        \E p \in Walk(WEB_STATIC_DIR, files0, FrontendDirsToExclude, FilesToExclude) :
            u = p \/ (u \in DirsAbove(p) /\ Len(u) >= Len(WEB_STATIC_DIR))

\* C20: when both archives are requested and something under the frontend
\* root cannot be read, export ends with the failure raised to its caller,
\* and the backend _zip call has been made.
C20_FailureSurfacedBackendAttempted ==
    (zip /\ frontend /\ backend /\ FrontendUnreadable /\ pc \in {"done", "raised"}) =>
        /\ raised # "none"
        /\ manifests["Backend"] # NoManifest

----------------------------------------------------------------------------
(* Properties of setup_frontend_prod.                                      *)

\* The call has returned without raising.
Completed(step) == \E i \in 1 .. Len(strace) : strace[i] = <<step, "completed">>

\* The export build subprocess has been spawned.
ExportBuildSpawned ==
    \E i \in 1 .. Len(spawned) : spawned[i] \in {"export", "export-sitemap"}

\* env.json holds an object with the three URLs of set_env_json.
ManifestWritten ==
    /\ ENV_JSON \in jsonExists
    /\ Len(jsonText[ENV_JSON]) > 0
    /\ LET json_object == JsonLoad(jsonText[ENV_JSON])
       IN \A i \in 1 .. Len(EnvJsonDict) :
             /\ EnvJsonDict[i][1] \in DictKeys(json_object)
             /\ DictGet(json_object, EnvJsonDict[i][1]) = EnvJsonDict[i][2]

\* C21: in setup_frontend_prod, once the export build subprocess has been
\* spawned env.json holds uploadUrl, eventUrl and pingUrl, written by a
\* set_env_json call that has returned; and once export has taken any step
\* (the removal of the static output is its first, the build comes later)
\* the installation of the frontend packages and the copy of the assets
\* have both returned without raising.
C21_ManifestAndSetupBeforeBuild ==
    /\ ExportBuildSpawned => ManifestWritten /\ Completed("set_env_json")
    /\ trace # <<>> => Completed("install") /\ Completed("cp")

\* setup_frontend_prod has returned after a build that was spawned with
\* the manifest in place and the assets copied to the public directory.
C21_Witness ==
    /\ spc = "done"
    /\ ExportBuildSpawned
    /\ ManifestWritten
    /\ trace # <<>>
    /\ Completed("install")
    /\ Completed("cp")
    /\ \E p \in files : Under(<< <<".", "web">>, <<"public">> >>, p)

====
